---- MODULE Spec2Model ----
(***************************************************************************)
(* Highlight engine of llmd: occurrence locator, occurrence index          *)
(* calculator, range validator and the render-side mark applier; command   *)
(* line parsing.                                                           *)
(*                                                                         *)
(* Text is a sequence of one-character strings.  Offsets are 0-based and   *)
(* half-open, as in the TypeScript source; Slice translates them to the    *)
(* 1-based sequences of TLA+.                                              *)
(***************************************************************************)
EXTENDS Integers, Sequences, FiniteSets, TLC

VARIABLES
    \* ---- occurrence locator / occurrence index calculator ----
    content,          \* the document text searched (markdown source / page text)
    searchText,       \* the text searched for (the selected text)
    lstep,            \* "input" | "searched" | "resolved" | "requested" | "created"
    occurrences,      \* result of the last findAllOccurrences
    occurrenceIndex,  \* index asked of findTextOffset (-1 before any request)
    selStart,         \* start of the client's selection in content (-1: none)
    resolved,         \* result of the last findTextOffset
    \* ---- render side ----
    tree,             \* children of the root element (the rendered document)
    ranges,           \* the batch handed to renderHighlights
    renderResult,     \* "none" | "success" | "error": result of the last call
    validation,       \* what validateHighlightRanges returned in the last call
    canonical,        \* canonical text of the tree once the last call had unwrapped
                      \* the old marks and normalized it
    prevTree,         \* the tree as it was before the last call
    splitLog,         \* the splits of the last call, in the order they were made
    \* ---- command line ----
    args,             \* the argument list given to parseArgs
    cstep,            \* "input" | "parsed" | "configured"
    parsed,           \* what parseArgs returned
    config,           \* what createConfig returned
    \* ---- source-side injection ----
    markdownIn,       \* the source text given to injectHighlightMarks
    highlightsIn,     \* the highlights given to injectHighlightMarks
    injected,         \* the text injectHighlightMarks returned
    istep,            \* "input" | "injected"
    \* ---- record store and document (server side) ----
    source,           \* the current source text of the document
    store,            \* the highlight records of the document, in creation order
    now,              \* time of the last write to the store
    edits,            \* number of edits made to the document
    creating,         \* the creation between its read of the source and its write
    lastOp,           \* the last operation: "none" | "read" | "reject" | "create" |
                      \* "edit" | "render" | "notes" | "delete"
    pageOut,          \* the marked-up source the last render produced
    raced,            \* ids of the records written after an edit that followed the
                      \* read of their creation
    \* ---- selection and popup (client side) ----
    currentSelection, \* the pending selection (NoSelection: null)
    popup,            \* "none" (not created) | "shown" | "hidden"
    noteInput,        \* the text in the textarea of the popup
    reloaded,         \* the page has been reloaded by createHighlight
    request,          \* the creation request under way
    lastStatus,       \* status of the last response createHighlight saw (0: none)
    lastSelection,    \* the selection the last selection event was about
    \* ---- occurrence index of a selection on a rendered page ----
    page,             \* the rendered content area (children of .content), marks included
    selection,        \* the Range of the pending selection and its trimmed text
    indexed,          \* what calculateOccurrenceIndex computed for it
    \* ---- HTTP server: views ----
    fileSystem,       \* the files below the root directory: relative path -> content or Missing
    httpRequest,      \* the pathname of the last request (NoPathname: none)
    httpResponse,     \* the response to it
    \* ---- deep-link navigation ----
    doc,              \* the document of the page opened (its marks are the ones the selector sees)
    hasContent,       \* the page has a .content element (a markdown page)
    hash,             \* window.location.hash
    nstep,            \* "loaded" | "initialized"
    scrollTimer,      \* the timer handleHighlightFragment set, with the id it is for
    flash,            \* the marks (positions among the marks of doc) with class highlight-flash
    scrolledTo,       \* the mark scrolled into view (0: none)
    navLog,           \* the calls of scrollToHighlight made for the fragment, with their results
    \* ---- live reload (file watcher) ----
    sockets,          \* the WebSockets connect() has created, in order
    wsRef,            \* the socket the variable ws refers to (0: null)
    reconnectTimers,  \* the sockets whose close handler set a timer that is still pending
    reconnectTimeout, \* the socket whose timer the variable reconnectTimeout holds (0: null)
    pageLoaded,       \* the page is still loaded
    reloadCause,      \* the message on which the page was reloaded
    watched,          \* server: the (socket, file) pairs watchFile was called for
    \* ---- creation requests of one page ----
    posts,            \* the POST /api/highlights requests createHighlight has sent, in order
    \* ---- the scan loop of calculateOccurrenceIndex ----
    scan              \* the loop: its phase, textBefore, selectedText, searchPos and count

lvars == <<content, searchText, lstep, occurrences, occurrenceIndex, selStart, resolved>>
rvars == <<tree, ranges, renderResult, validation, canonical, prevTree, splitLog>>
cvars == <<args, cstep, parsed, config>>
ivars == <<markdownIn, highlightsIn, injected, istep>>
svars == <<source, store, now, edits, creating, lastOp, pageOut, raced>>
uvars == <<currentSelection, popup, noteInput, reloaded, request, lastStatus, lastSelection>>
qvars == <<page, selection, indexed>>
hvars == <<fileSystem, httpRequest, httpResponse>>
nvars == <<doc, hasContent, hash, nstep, scrollTimer, flash, scrolledTo, navLog>>
wvars == <<sockets, wsRef, reconnectTimers, reconnectTimeout, pageLoaded, reloadCause, watched>>
pvars == <<posts>>
zvars == <<scan>>
vars == <<content, searchText, lstep, occurrences, occurrenceIndex, selStart, resolved,
          tree, ranges, renderResult, validation, canonical, prevTree, splitLog,
          args, cstep, parsed, config,
          markdownIn, highlightsIn, injected, istep,
          source, store, now, edits, creating, lastOp, pageOut, raced,
          currentSelection, popup, noteInput, reloaded, request, lastStatus, lastSelection,
          page, selection, indexed,
          fileSystem, httpRequest, httpResponse,
          doc, hasContent, hash, nstep, scrollTimer, flash, scrolledTo, navLog,
          sockets, wsRef, reconnectTimers, reconnectTimeout, pageLoaded, reloadCause, watched,
          posts,
          scan>>

\* What the actions of one part leave alone.
nonLocator == <<rvars, cvars, ivars, svars, uvars, qvars, hvars, nvars, wvars, pvars, zvars>>
nonRender == <<lvars, cvars, ivars, svars, uvars, qvars, hvars, nvars, wvars, pvars, zvars>>
nonCli == <<lvars, rvars, ivars, svars, uvars, qvars, hvars, nvars, wvars, pvars, zvars>>
nonInject == <<lvars, rvars, cvars, svars, uvars, qvars, hvars, nvars, wvars, pvars, zvars>>
nonStore == <<lvars, rvars, cvars, ivars, uvars, qvars, hvars, nvars, wvars, pvars, zvars>>
nonClient == <<lvars, rvars, cvars, ivars, edits, creating, lastOp, pageOut, raced, qvars, hvars, nvars, wvars, pvars, zvars>>
nonSelect == <<lvars, rvars, cvars, ivars, svars, uvars, hvars, nvars, wvars, pvars, zvars>>
nonServer == <<lvars, rvars, cvars, ivars, svars, uvars, qvars, nvars, wvars, pvars, zvars>>
nonNav == <<lvars, rvars, cvars, ivars, svars, uvars, qvars, hvars, wvars, pvars, zvars>>
nonWatcher == <<lvars, rvars, cvars, ivars, svars, uvars, qvars, hvars, nvars, pvars, zvars>>

(***************************************************************************)
(* Bounds of the model.                                                    *)
(***************************************************************************)
MaxDocLen == 4
MaxTextLen == 3
MaxIndex == 5
MaxOff == 3
MaxRanges == 2
MaxArgs == 2
MaxHighlights == 2
MaxClock == 2
MaxEdits == 1
MaxCreated == 1
MaxSockets == 3
MaxInFlight == 2

(***************************************************************************)
(* Strings.                                                                *)
(***************************************************************************)
Whitespace == {" ", "\n", "\t"}
Chars == {"a", "b", " "}

Min(a, b) == IF a < b THEN a ELSE b
Max(a, b) == IF a > b THEN a ELSE b

SeqsUpTo(S, n) == UNION {[1..k -> S] : k \in 0..n}

\* String.prototype.slice(s, e) for 0 <= s: the characters at offsets s .. e-1,
\* both ends clamped to the length of the string.
Slice(text, s, e) ==
    LET lo == Min(Max(s, 0), Len(text))
        hi == Min(Max(e, 0), Len(text))
    IN  IF lo >= hi THEN <<>> ELSE SubSeq(text, lo + 1, hi)

\* text.slice(p, p + len(s)) === s
OccursAt(text, s, p) ==
    /\ p >= 0
    /\ p + Len(s) <= Len(text)
    /\ \A k \in 1..Len(s) : text[p + k] = s[k]

\* String.prototype.indexOf(s, pos) for a non-empty s: the least offset >= pos at
\* which s occurs, -1 when there is none.
IndexOf(text, s, pos) ==
    LET hits == {q \in Max(pos, 0)..(Len(text) - Len(s)) : OccursAt(text, s, q)}
    IN  IF hits = {} THEN -1 ELSE CHOOSE q \in hits : \A r \in hits : q <= r

\* String.prototype.trim(): without the leading and trailing whitespace.
Trim(text) ==
    LET solid == {i \in 1..Len(text) : text[i] \notin Whitespace}
    IN  IF solid = {} THEN <<>>
        ELSE SubSeq(text, CHOOSE i \in solid : \A j \in solid : i <= j,
                          CHOOSE i \in solid : \A j \in solid : i >= j)

(***************************************************************************)
(* Whitespace normalization: text.replace(/\s+/g, ' ').trim().             *)
(* NormIndices gives, for each character of the normalized text, the       *)
(* 1-based index in the raw text it comes from (a whitespace run is        *)
(* represented by its first character), so that offsets in the normalized  *)
(* text can be mapped back to the raw text.                                *)
(***************************************************************************)
RECURSIVE CollapsedFrom(_, _)
CollapsedFrom(text, i) ==
    IF i > Len(text) THEN <<>>
    ELSE IF text[i] \in Whitespace /\ i > 1 /\ text[i - 1] \in Whitespace
         THEN CollapsedFrom(text, i + 1)
         ELSE <<i>> \o CollapsedFrom(text, i + 1)

NormIndices(text) ==
    LET kept == CollapsedFrom(text, 1)
        solid == {k \in 1..Len(kept) : text[kept[k]] \notin Whitespace}
    IN  IF solid = {} THEN <<>>
        ELSE SubSeq(kept, CHOOSE k \in solid : \A j \in solid : k <= j,
                          CHOOSE k \in solid : \A j \in solid : k >= j)

normalizeWhitespace(text) ==
    LET idx == NormIndices(text)
    IN  [k \in 1..Len(idx) |-> IF text[idx[k]] \in Whitespace THEN " " ELSE text[idx[k]]]

(***************************************************************************)
(* Occurrence locator (server side).                                       *)
(***************************************************************************)
\* The exact-match pass: every start offset of searchText in content, found by
\* an indexOf scan that resumes one character after each hit.
RECURSIVE ExactFrom(_, _, _)
ExactFrom(text, s, pos) ==
    LET found == IndexOf(text, s, pos)
    IN  IF found = -1 THEN <<>> ELSE <<found>> \o ExactFrom(text, s, found + 1)

\* The same scan resuming after the whole hit (non-overlapping occurrences only).
RECURSIVE ExactFromByLength(_, _, _)
ExactFromByLength(text, s, pos) ==
    LET found == IndexOf(text, s, pos)
    IN  IF found = -1 THEN <<>> ELSE <<found>> \o ExactFromByLength(text, s, found + Len(s))

ExactOccurrences(text, s) == ExactFrom(text, s, 0)

\* The fallback pass: occurrences of the normalized search text in the normalized
\* content, as offsets into the normalized content.
NormalizedOccurrences(text, s) ==
    LET ns == normalizeWhitespace(s)
    IN  IF ns = <<>> THEN <<>> ELSE ExactFrom(normalizeWhitespace(text), ns, 0)

\* Raw offset of the character at normalized offset n of text.
RawOffset(text, n) == NormIndices(text)[n + 1] - 1

findAllOccurrencesByLength(text, s) ==
    LET exact == ExactFromByLength(text, s, 0)
        norm == NormalizedOccurrences(text, s)
    IN  IF exact # <<>> THEN exact
        ELSE [k \in 1..Len(norm) |-> RawOffset(text, norm[k])]

findAllOccurrences(text, s) ==
    LET exact == ExactOccurrences(text, s)
        norm == NormalizedOccurrences(text, s)
    IN  IF exact # <<>> THEN exact
        ELSE [k \in 1..Len(norm) |-> RawOffset(text, norm[k])]

NotFound == [found |-> FALSE, startOffset |-> -1, endOffset |-> -1]

\* The occurrence index ignored: always the first occurrence.
findTextOffsetFirst(text, s, i) ==
    LET exact == ExactOccurrences(text, s)
        norm == NormalizedOccurrences(text, s)
        ns == normalizeWhitespace(s)
    IN  IF exact # <<>>
        THEN [found |-> TRUE, startOffset |-> exact[1], endOffset |-> exact[1] + Len(s)]
        ELSE IF norm # <<>>
             THEN [found |-> TRUE, startOffset |-> RawOffset(text, norm[1]),
                   endOffset |-> RawOffset(text, norm[1] + Len(ns) - 1) + 1]
             ELSE NotFound

\* End of a normalized match mapped back without regard to collapsed whitespace.
findTextOffsetNormalizedLength(text, s, i) ==
    LET all == findAllOccurrences(text, s)
    IN  IF i >= 0 /\ i < Len(all)
        THEN [found |-> TRUE, startOffset |-> all[i + 1],
              endOffset |-> all[i + 1] + Len(normalizeWhitespace(s))]
        ELSE NotFound

findTextOffset(text, s, i) ==
    LET exact == ExactOccurrences(text, s)
        norm == NormalizedOccurrences(text, s)
        ns == normalizeWhitespace(s)
    IN  IF exact # <<>>
        THEN IF i >= 0 /\ i < Len(exact)
             THEN [found |-> TRUE, startOffset |-> exact[i + 1],
                   endOffset |-> exact[i + 1] + Len(s)]
             ELSE NotFound
        ELSE IF i >= 0 /\ i < Len(norm)
             THEN [found |-> TRUE, startOffset |-> RawOffset(text, norm[i + 1]),
                   endOffset |-> RawOffset(text, norm[i + 1] + Len(ns) - 1) + 1]
             ELSE NotFound

(***************************************************************************)
(* Occurrence index calculator (client side).                              *)
(***************************************************************************)
\* The while loop of calculateOccurrenceIndex: count, searchPos = found + 1.
RECURSIVE CountFrom(_, _, _)
CountFrom(textBefore, selectedText, searchPos) ==
    LET found == IndexOf(textBefore, selectedText, searchPos)
    IN  IF found = -1 THEN 0 ELSE 1 + CountFrom(textBefore, selectedText, found + 1)

\* The scan resuming after the whole match (searchPos = found + length).
RECURSIVE CountFromByLength(_, _, _)
CountFromByLength(textBefore, selectedText, searchPos) ==
    LET found == IndexOf(textBefore, selectedText, searchPos)
    IN  IF found = -1 THEN 0
        ELSE 1 + CountFromByLength(textBefore, selectedText, found + Len(selectedText))

calculateOccurrenceIndexByLength(selectedText, pageText, start) ==
    CountFromByLength(Slice(pageText, 0, start), selectedText, 0)

\* calculateOccurrenceIndex(selectedText, range) on a page whose text is pageText
\* with the range starting at offset start: textBefore is the text of the content
\* area up to the start of the range.
calculateOccurrenceIndex(selectedText, pageText, start) ==
    CountFrom(Slice(pageText, 0, start), selectedText, 0)

(***************************************************************************)
(* The rendered document.  A node is a record; a text node carries text,   *)
(* an element carries children.  highlight is TRUE for a                   *)
(* <mark class="llmd-highlight"> element, whose id is its data-highlight-id *)
(* and whose stale says whether it has the class llmd-highlight-stale.     *)
(* The tree is the sequence of children of the root element.  A node is    *)
(* identified by its path: the child indices leading to it from the root.  *)
(***************************************************************************)
TextNode(s) ==
    [kind |-> "text", text |-> s, highlight |-> FALSE, id |-> 0, stale |-> FALSE,
     children |-> <<>>]

Element(c) ==
    [kind |-> "elem", text |-> <<>>, highlight |-> FALSE, id |-> 0, stale |-> FALSE,
     children |-> c]

MarkElement(i, st, c) ==
    [kind |-> "elem", text |-> <<>>, highlight |-> TRUE, id |-> i, stale |-> st,
     children |-> c]

\* Node.textContent of a sequence of sibling nodes.
RECURSIVE textContent(_)
textContent(nodes) ==
    IF nodes = <<>> THEN <<>>
    ELSE LET n == Head(nodes)
         IN  (IF n.kind = "text" THEN n.text ELSE textContent(n.children))
                 \o textContent(Tail(nodes))

\* The extractor without the isInsideHighlight test.
extractCanonicalTextUnfiltered(nodes) == textContent(nodes)

\* extractCanonicalText: the text nodes in document order, skipping every text
\* node that has a highlight mark among its ancestors below the root.
RECURSIVE extractCanonicalText(_)
extractCanonicalText(nodes) ==
    IF nodes = <<>> THEN <<>>
    ELSE LET n == Head(nodes)
         IN  (IF n.kind = "text" THEN n.text
              ELSE IF n.highlight THEN <<>>
              ELSE extractCanonicalText(n.children))
                 \o extractCanonicalText(Tail(nodes))

\* The paths of the text nodes outside highlight marks, in document order.
RECURSIVE TextNodePaths(_, _, _)
TextNodePaths(nodes, prefix, k) ==
    IF k > Len(nodes) THEN <<>>
    ELSE LET n == nodes[k]
         IN  (IF n.kind = "text" THEN << Append(prefix, k) >>
              ELSE IF n.highlight THEN <<>>
              ELSE TextNodePaths(n.children, Append(prefix, k), 1))
                 \o TextNodePaths(nodes, prefix, k + 1)

RECURSIVE NodeAt(_, _)
NodeAt(nodes, path) ==
    IF Len(path) = 1 THEN nodes[path[1]]
    ELSE NodeAt(nodes[path[1]].children, Tail(path))

\* parent.replaceChild(fragment, node): the node at path replaced by the nodes of
\* the fragment.
RECURSIVE ReplaceAt(_, _, _)
ReplaceAt(nodes, path, fragment) ==
    LET k == path[1]
    IN  IF Len(path) = 1
        THEN SubSeq(nodes, 1, k - 1) \o fragment \o SubSeq(nodes, k + 1, Len(nodes))
        ELSE [nodes EXCEPT ![k].children = ReplaceAt(nodes[k].children, Tail(path), fragment)]

RECURSIVE SumLengths(_, _, _)
SumLengths(nodes, paths, k) ==
    IF k = 0 THEN 0
    ELSE Len(NodeAt(nodes, paths[k]).text) + SumLengths(nodes, paths, k - 1)

\* The paths of all the text nodes, those inside highlight marks included.
RECURSIVE AllTextNodePaths(_, _, _)
AllTextNodePaths(nodes, prefix, k) ==
    IF k > Len(nodes) THEN <<>>
    ELSE LET n == nodes[k]
         IN  (IF n.kind = "text" THEN << Append(prefix, k) >>
              ELSE AllTextNodePaths(n.children, Append(prefix, k), 1))
                 \o AllTextNodePaths(nodes, prefix, k + 1)

\* The map without the isInsideHighlight test.
buildTextNodeMapUnfiltered(nodes) ==
    LET paths == AllTextNodePaths(nodes, <<>>, 1)
    IN  [k \in 1..Len(paths) |->
            [node |-> paths[k],
             globalStartOffset |-> SumLengths(nodes, paths, k - 1),
             globalEndOffset |-> SumLengths(nodes, paths, k)]]

\* buildTextNodeMap: one record per text node outside highlight marks, with the
\* running global offsets.
buildTextNodeMap(nodes) ==
    LET paths == TextNodePaths(nodes, <<>>, 1)
    IN  [k \in 1..Len(paths) |->
            [node |-> paths[k],
             globalStartOffset |-> SumLengths(nodes, paths, k - 1),
             globalEndOffset |-> SumLengths(nodes, paths, k)]]

\* findIntersectingNodes: the records whose interval meets [startOffset, endOffset),
\* with the intersection in node-relative offsets.
RECURSIVE IntersectingFrom(_, _, _, _, _)
IntersectingFrom(nodes, mappings, startOffset, endOffset, k) ==
    IF k > Len(mappings) THEN <<>>
    ELSE LET mapping == mappings[k]
             startsBeforeEnd == mapping.globalStartOffset < endOffset
             endsAfterStart == mapping.globalEndOffset > startOffset
             hit == [node |-> mapping.node,
                     localStart |-> Max(0, startOffset - mapping.globalStartOffset),
                     localEnd |-> Min(Len(NodeAt(nodes, mapping.node).text),
                                      endOffset - mapping.globalStartOffset)]
         IN  (IF startsBeforeEnd /\ endsAfterStart THEN <<hit>> ELSE <<>>)
                 \o IntersectingFrom(nodes, mappings, startOffset, endOffset, k + 1)

findIntersectingNodes(nodes, mappings, startOffset, endOffset) ==
    IntersectingFrom(nodes, mappings, startOffset, endOffset, 1)

(***************************************************************************)
(* Range validation.                                                       *)
(***************************************************************************)
\* Array.prototype.sort((a, b) => a.startOffset - b.startOffset): a stable sort.
RECURSIVE InsertByStart(_, _)
InsertByStart(sorted, r) ==
    IF sorted = <<>> THEN <<r>>
    ELSE IF r.startOffset < Head(sorted).startOffset THEN <<r>> \o sorted
    ELSE <<Head(sorted)>> \o InsertByStart(Tail(sorted), r)

RECURSIVE SortByStart(_)
SortByStart(rs) ==
    IF rs = <<>> THEN <<>>
    ELSE InsertByStart(SortByStart(SubSeq(rs, 1, Len(rs) - 1)), rs[Len(rs)])

Invalid == [valid |-> FALSE, ranges |-> <<>>]

\* Touching ranges rejected too (>= in place of >).
validateHighlightRangesNoTouch(rs) ==
    IF \E k \in 1..Len(rs) : rs[k].startOffset >= rs[k].endOffset \/ rs[k].startOffset < 0
    THEN Invalid
    ELSE LET sorted == SortByStart(rs)
         IN  IF \E i \in 1..(Len(sorted) - 1) :
                    sorted[i].endOffset >= sorted[i + 1].startOffset
             THEN Invalid
             ELSE [valid |-> TRUE, ranges |-> sorted]

\* The input returned in the caller's order (no sort of the copy).
validateHighlightRangesUnsorted(rs) ==
    IF \E k \in 1..Len(rs) : rs[k].startOffset >= rs[k].endOffset \/ rs[k].startOffset < 0
    THEN Invalid
    ELSE LET sorted == SortByStart(rs)
         IN  IF \E i \in 1..(Len(sorted) - 1) :
                    sorted[i].endOffset > sorted[i + 1].startOffset
             THEN Invalid
             ELSE [valid |-> TRUE, ranges |-> rs]

validateHighlightRanges(rs) ==
    IF \E k \in 1..Len(rs) : rs[k].startOffset >= rs[k].endOffset \/ rs[k].startOffset < 0
    THEN Invalid
    ELSE LET sorted == SortByStart(rs)
         IN  IF \E i \in 1..(Len(sorted) - 1) :
                    sorted[i].endOffset > sorted[i + 1].startOffset
             THEN Invalid
             ELSE [valid |-> TRUE, ranges |-> sorted]

(***************************************************************************)
(* Splitting and wrapping.                                                 *)
(***************************************************************************)
\* The split that always puts a text node before and after the mark.
splitAndWrapTextNodeKeepEmpty(nodes, hit, highlightId, isStale) ==
    LET text == NodeAt(nodes, hit.node).text
        before == Slice(text, 0, hit.localStart)
        highlighted == Slice(text, hit.localStart, hit.localEnd)
        after == Slice(text, hit.localEnd, Len(text))
        mark == MarkElement(highlightId, isStale, <<TextNode(highlighted)>>)
    IN  ReplaceAt(nodes, hit.node, <<TextNode(before), mark, TextNode(after)>>)

\* splitAndWrapTextNode: the text node at hit.node replaced by the non-empty ones
\* of before / after around a mark wrapping the highlighted part.
splitAndWrapTextNode(nodes, hit, highlightId, isStale) ==
    LET text == NodeAt(nodes, hit.node).text
        before == Slice(text, 0, hit.localStart)
        highlighted == Slice(text, hit.localStart, hit.localEnd)
        after == Slice(text, hit.localEnd, Len(text))
        mark == MarkElement(highlightId, isStale,
                            IF highlighted = <<>> THEN <<>> ELSE <<TextNode(highlighted)>>)
        fragment == (IF before = <<>> THEN <<>> ELSE <<TextNode(before)>>)
                        \o <<mark>>
                        \o (IF after = <<>> THEN <<>> ELSE <<TextNode(after)>>)
    IN  ReplaceAt(nodes, hit.node, fragment)

\* Number of nodes splitAndWrapTextNode puts in place of the node of hit.
FragmentLength(nodes, hit) ==
    LET text == NodeAt(nodes, hit.node).text
    IN  1 + (IF hit.localStart > 0 THEN 1 ELSE 0)
          + (IF hit.localEnd < Len(text) THEN 1 ELSE 0)

\* A Text object keeps its identity when an earlier sibling is replaced by several
\* nodes: its path moves by the number of nodes added before it.
ShiftedPath(path, replaced, added) ==
    LET d == Len(replaced)
    IN  IF /\ Len(path) >= d
           /\ SubSeq(path, 1, d - 1) = SubSeq(replaced, 1, d - 1)
           /\ path[d] > replaced[d]
        THEN [path EXCEPT ![d] = @ + added]
        ELSE path

\* The loop of applyHighlightRange over the intersecting nodes.
RECURSIVE WrapEach(_, _, _)
WrapEach(nodes, hits, range) ==
    IF hits = <<>> THEN nodes
    ELSE LET hit == Head(hits)
             added == FragmentLength(nodes, hit) - 1
             rest == [k \in 1..(Len(hits) - 1) |->
                         [hits[k + 1] EXCEPT !.node = ShiftedPath(@, hit.node, added)]]
         IN  WrapEach(splitAndWrapTextNode(nodes, hit, range.id, range.isStale), rest, range)

applyHighlightRange(nodes, mappings, range) ==
    WrapEach(nodes,
             findIntersectingNodes(nodes, mappings, range.startOffset, range.endOffset),
             range)

\* removeExistingHighlights: every highlight mark replaced by a text node holding
\* its textContent.
RECURSIVE removeExistingHighlights(_)
removeExistingHighlights(nodes) ==
    [k \in 1..Len(nodes) |->
        IF nodes[k].kind = "text" THEN nodes[k]
        ELSE IF nodes[k].highlight THEN TextNode(textContent(nodes[k].children))
        ELSE [nodes[k] EXCEPT !.children = removeExistingHighlights(@)]]

\* Node.normalize(): empty text nodes removed and adjacent text nodes merged, in
\* the whole subtree.
RECURSIVE normalize(_)
normalize(nodes) ==
    IF nodes = <<>> THEN <<>>
    ELSE LET n == Head(nodes)
             rest == normalize(Tail(nodes))
         IN  IF n.kind = "elem" THEN <<[n EXCEPT !.children = normalize(@)]>> \o rest
             ELSE IF n.text = <<>> THEN rest
             ELSE IF rest # <<>> /\ rest[1].kind = "text"
                  THEN <<TextNode(n.text \o rest[1].text)>> \o Tail(rest)
                  ELSE <<n>> \o rest

(***************************************************************************)
(* Rendering.                                                              *)
(***************************************************************************)
\* Step 5 of renderHighlights: the ranges applied from the last to the first, the
\* map rebuilt after each but the last application.
RECURSIVE ApplyReverse(_, _, _, _)
ApplyReverse(nodes, mappings, validRanges, i) ==
    IF i < 1 THEN nodes
    ELSE LET applied == applyHighlightRange(nodes, mappings, validRanges[i])
         IN  IF i > 1
             THEN ApplyReverse(applied, buildTextNodeMap(applied), validRanges, i - 1)
             ELSE applied

\* The ranges applied from the first to the last.
RECURSIVE ApplyForward(_, _, _, _)
ApplyForward(nodes, mappings, validRanges, i) ==
    IF i > Len(validRanges) THEN nodes
    ELSE LET applied == applyHighlightRange(nodes, mappings, validRanges[i])
         IN  ApplyForward(applied, buildTextNodeMap(applied), validRanges, i + 1)

\* The splits applyHighlightRange makes for one range, in order: each with the id
\* of the range, the text node split and mapAge, the number of splits made in the
\* call since the map its offsets come from was built (built: splits made when
\* the map was built; done: splits made so far).
SplitsOfRange(nodes, mappings, range, built, done) ==
    LET hits == findIntersectingNodes(nodes, mappings, range.startOffset, range.endOffset)
    IN  [k \in 1..Len(hits) |->
            [id |-> range.id, localStart |-> hits[k].localStart,
             localEnd |-> hits[k].localEnd, mapAge |-> (done + k - 1) - built]]

\* The splits of step 5 of renderHighlights: mappings is rebuilt after the
\* application of a range when another range follows (i > 0 in the source).
RECURSIVE SplitsReverse(_, _, _, _, _, _)
SplitsReverse(nodes, mappings, validRanges, i, built, done) ==
    IF i < 1 THEN <<>>
    ELSE LET made == SplitsOfRange(nodes, mappings, validRanges[i], built, done)
             applied == applyHighlightRange(nodes, mappings, validRanges[i])
         IN  made \o (IF i > 1
                      THEN SplitsReverse(applied, buildTextNodeMap(applied), validRanges,
                                         i - 1, done + Len(made), done + Len(made))
                      ELSE <<>>)

\* The splits a call renderHighlights(root, ranges) makes.
renderHighlightsSplits(root, rs) ==
    LET clean == normalize(removeExistingHighlights(root))
        validated == validateHighlightRanges(rs)
    IN  IF ~validated.valid THEN <<>>
        ELSE SplitsReverse(clean, buildTextNodeMap(clean), validated.ranges,
                           Len(validated.ranges), 0, 0)

\* The result of renderHighlights(root, ranges): the tree it leaves, whether it
\* succeeded and what the validation returned.
Rendered(nodes, ok, validated) ==
    [tree |-> nodes, success |-> ok, validation |-> validated]

\* Applied first to last.
renderHighlightsForward(root, rs) ==
    LET clean == normalize(removeExistingHighlights(root))
        validated == validateHighlightRanges(rs)
    IN  IF ~validated.valid THEN Rendered(clean, FALSE, validated)
        ELSE Rendered(ApplyForward(clean, buildTextNodeMap(clean), validated.ranges, 1),
                      TRUE, validated)

\* The existing marks left in place.
renderHighlightsKeepMarks(root, rs) ==
    LET clean == normalize(root)
        validated == validateHighlightRanges(rs)
    IN  IF ~validated.valid THEN Rendered(clean, FALSE, validated)
        ELSE Rendered(ApplyReverse(clean, buildTextNodeMap(clean), validated.ranges,
                                   Len(validated.ranges)),
                      TRUE, validated)

\* Validation after the fact: the single valid ranges are applied, then the error
\* is returned.
renderHighlightsPartial(root, rs) ==
    LET clean == normalize(removeExistingHighlights(root))
        validated == validateHighlightRanges(rs)
        single == SortByStart(SelectSeq(rs, LAMBDA r : r.startOffset >= 0
                                                        /\ r.startOffset < r.endOffset))
    IN  IF ~validated.valid
        THEN Rendered(ApplyReverse(clean, buildTextNodeMap(clean), single, Len(single)),
                      FALSE, validated)
        ELSE Rendered(ApplyReverse(clean, buildTextNodeMap(clean), validated.ranges,
                                   Len(validated.ranges)),
                      TRUE, validated)

\* Validation before anything is touched: a rejected batch leaves the tree alone.
renderHighlightsValidateFirst(root, rs) ==
    LET clean == normalize(removeExistingHighlights(root))
        validated == validateHighlightRanges(rs)
    IN  IF ~validated.valid THEN Rendered(root, FALSE, validated)
        ELSE IF Len(validated.ranges) = 0 THEN Rendered(clean, TRUE, validated)
        ELSE Rendered(ApplyReverse(clean, buildTextNodeMap(clean), validated.ranges,
                                   Len(validated.ranges)),
                      TRUE, validated)

renderHighlights(root, rs) ==
    LET clean == normalize(removeExistingHighlights(root))
        validated == validateHighlightRanges(rs)
    IN  IF ~validated.valid THEN Rendered(clean, FALSE, validated)
        ELSE IF Len(validated.ranges) = 0 THEN Rendered(clean, TRUE, validated)
        ELSE Rendered(ApplyReverse(clean, buildTextNodeMap(clean), validated.ranges,
                                   Len(validated.ranges)),
                      TRUE, validated)

(***************************************************************************)
(* Source-side mark injection (server side).                               *)
(***************************************************************************)
\* The markers are single elements of the text, distinct from every character.
OpenMarker(id) == "<mark data-highlight-id='" \o ToString(id) \o "'>"
CloseMarker == "</mark>"

RECURSIVE InsertByStartDescending(_, _)
InsertByStartDescending(sorted, h) ==
    IF sorted = <<>> THEN <<h>>
    ELSE IF h.startOffset > Head(sorted).startOffset THEN <<h>> \o sorted
    ELSE <<Head(sorted)>> \o InsertByStartDescending(Tail(sorted), h)

RECURSIVE SortByStartDescending(_)
SortByStartDescending(hs) ==
    IF hs = <<>> THEN <<>>
    ELSE InsertByStartDescending(SortByStartDescending(SubSeq(hs, 1, Len(hs) - 1)),
                                 hs[Len(hs)])

\* before + marker-open + text + marker-close + after
Splice(markdown, h) ==
    Slice(markdown, 0, h.startOffset)
        \o <<OpenMarker(h.id)>>
        \o Slice(markdown, h.startOffset, h.endOffset)
        \o <<CloseMarker>>
        \o Slice(markdown, h.endOffset, Len(markdown))

RECURSIVE SpliceEach(_, _)
SpliceEach(markdown, hs) ==
    IF hs = <<>> THEN markdown ELSE SpliceEach(Splice(markdown, Head(hs)), Tail(hs))

\* The highlights spliced in ascending startOffset.
injectHighlightMarksAscending(markdown, highlights) ==
    SpliceEach(markdown, SortByStart(SelectSeq(highlights, LAMBDA h : ~h.isStale)))

injectHighlightMarks(markdown, highlights) ==
    SpliceEach(markdown,
               SortByStartDescending(SelectSeq(highlights, LAMBDA h : ~h.isStale)))

(***************************************************************************)
(* Highlight records, stale classification, creation (server side).        *)
(***************************************************************************)
ReadmePath == <<"R", "E", "A", "D", "M", "E", ".", "m", "d">>

\* The stale classifier on a stored range: the text at the range, normalized,
\* differs from the normalized highlightedText.
classifyStale(text, h) ==
    normalizeWhitespace(Slice(text, h.startOffset, h.endOffset))
        # normalizeWhitespace(h.highlightedText)

\* The record put into the store for a request resolved to the range found in the
\* source read; t is the time of the write, which also gives the id.
NewHighlight(t, path, req, found, text) ==
    LET h == [id |-> t, resourcePath |-> path,
              startOffset |-> found.startOffset, endOffset |-> found.endOffset,
              highlightedText |-> req.highlightedText, isStale |-> FALSE,
              notes |-> req.notes, createdAt |-> t, updatedAt |-> t]
    IN  [h EXCEPT !.isStale = classifyStale(text, h)]

\* Revalidation that trusts the persisted flag: a record once stale or once valid
\* stays so.
revalidateTrusting(text, h, t) == h

\* Revalidation that searches the text again and moves the range to where the
\* text is found.
revalidateRelocating(text, h, t) ==
    LET found == findTextOffset(text, h.highlightedText, 0)
    IN  IF found.found
        THEN [h EXCEPT !.startOffset = found.startOffset, !.endOffset = found.endOffset,
                       !.isStale = FALSE, !.updatedAt = t]
        ELSE [h EXCEPT !.isStale = TRUE, !.updatedAt = t]

\* Revalidation of one record against the text read: the classification is
\* recomputed and the flag written when it flips.
revalidate(text, h, t) ==
    IF classifyStale(text, h) # h.isStale
    THEN [h EXCEPT !.isStale = classifyStale(text, h), !.updatedAt = t]
    ELSE h

revalidateAll(text, hs, t) == [k \in 1..Len(hs) |-> revalidate(text, hs[k], t)]

(***************************************************************************)
(* Command line: parseArgs, resolvePath, createConfig.                     *)
(***************************************************************************)
\* A value that may be undefined.
Undefined == [defined |-> FALSE]
Def(v) == [defined |-> TRUE, value |-> v]

\* a ?? b
OrElse(a, b) == IF a.defined THEN a.value ELSE b

\* A number: an integer or NaN.
NaN == [nan |-> TRUE]
Num(n) == [nan |-> FALSE, n |-> n]

Digits == <<"0", "1", "2", "3", "4", "5", "6", "7", "8", "9">>
IsDigit(c) == \E d \in 1..Len(Digits) : Digits[d] = c
DigitValue(c) == (CHOOSE d \in 1..Len(Digits) : Digits[d] = c) - 1

\* The value of the leading run of decimal digits of text, read after acc.
RECURSIVE DigitsValue(_, _)
DigitsValue(text, acc) ==
    IF text = <<>> \/ ~IsDigit(Head(text)) THEN acc
    ELSE DigitsValue(Tail(text), 10 * acc + DigitValue(Head(text)))

RECURSIVE SkipWhitespace(_)
SkipWhitespace(text) ==
    IF text # <<>> /\ Head(text) \in Whitespace THEN SkipWhitespace(Tail(text)) ELSE text

\* Number.parseInt(text, 10).
parseInt(text) ==
    LET t == SkipWhitespace(text)
        signed == t # <<>> /\ Head(t) \in {"-", "+"}
        body == IF signed THEN Tail(t) ELSE t
    IN  IF body = <<>> \/ ~IsDigit(Head(body)) THEN NaN
        ELSE IF signed /\ Head(t) = "-" THEN Num(0 - DigitsValue(body, 0))
        ELSE Num(DigitsValue(body, 0))

startsWith(text, prefix) ==
    Len(text) >= Len(prefix) /\ SubSeq(text, 1, Len(prefix)) = prefix

endsWith(text, suffix) ==
    Len(text) >= Len(suffix)
        /\ SubSeq(text, Len(text) - Len(suffix) + 1, Len(text)) = suffix

LongHelp == <<"-", "-", "h", "e", "l", "p">>
LongVersion == <<"-", "-", "v", "e", "r", "s", "i", "o", "n">>
LongPort == <<"-", "-", "p", "o", "r", "t">>
LongHost == <<"-", "-", "h", "o", "s", "t">>
LongTheme == <<"-", "-", "t", "h", "e", "m", "e">>
LongFontTheme == <<"-", "-", "f", "o", "n", "t", "-", "t", "h", "e", "m", "e">>
LongOpen == <<"-", "-", "o", "p", "e", "n">>
LongNoOpen == <<"-", "-", "n", "o", "-", "o", "p", "e", "n">>
LongWatch == <<"-", "-", "w", "a", "t", "c", "h">>
LongNoWatch == <<"-", "-", "n", "o", "-", "w", "a", "t", "c", "h">>

NoFlags ==
    [help |-> Undefined, version |-> Undefined, port |-> Undefined, host |-> Undefined,
     theme |-> Undefined, fontTheme |-> Undefined, open |-> Undefined, watch |-> Undefined]

\* args[i] of a zero-based index i: undefined past the end.
ArgAt(argv, i) == IF i < Len(argv) THEN Def(argv[i + 1]) ELSE Undefined

\* The for loop of parseArgs from index i on, with the flags and path so far.
RECURSIVE ParseFrom(_, _, _, _)
ParseFrom(argv, i, flags, path) ==
    IF i >= Len(argv) THEN [path |-> path, flags |-> flags]
    ELSE LET arg == argv[i + 1]
             next == ArgAt(argv, i + 1)
         IN  IF arg = <<>> THEN ParseFrom(argv, i + 1, flags, path)
             ELSE IF arg = LongHelp
                  THEN ParseFrom(argv, i + 1, [flags EXCEPT !.help = Def(TRUE)], path)
             ELSE IF arg = LongVersion
                  THEN ParseFrom(argv, i + 1, [flags EXCEPT !.version = Def(TRUE)], path)
             ELSE IF arg = LongPort
                  THEN ParseFrom(argv, i + 2,
                                 [flags EXCEPT !.port = Def(parseInt(OrElse(next, <<"0">>)))],
                                 path)
             ELSE IF arg = LongHost
                  THEN ParseFrom(argv, i + 2, [flags EXCEPT !.host = next], path)
             ELSE IF arg = LongTheme
                  THEN ParseFrom(argv, i + 2, [flags EXCEPT !.theme = next], path)
             ELSE IF arg = LongFontTheme
                  THEN ParseFrom(argv, i + 2, [flags EXCEPT !.fontTheme = next], path)
             ELSE IF arg = LongOpen
                  THEN ParseFrom(argv, i + 1, [flags EXCEPT !.open = Def(TRUE)], path)
             ELSE IF arg = LongNoOpen
                  THEN ParseFrom(argv, i + 1, [flags EXCEPT !.open = Def(FALSE)], path)
             ELSE IF arg = LongWatch
                  THEN ParseFrom(argv, i + 1, [flags EXCEPT !.watch = Def(TRUE)], path)
             ELSE IF arg = LongNoWatch
                  THEN ParseFrom(argv, i + 1, [flags EXCEPT !.watch = Def(FALSE)], path)
             ELSE IF ~startsWith(arg, <<"-">>)
                  THEN ParseFrom(argv, i + 1, flags, Def(arg))
             ELSE ParseFrom(argv, i + 1, flags, path)

parseArgs(argv) == ParseFrom(argv, 0, NoFlags, Undefined)

\* The segments of a path between its "/" separators, empty ones included.
RECURSIVE SplitFrom(_, _)
SplitFrom(text, current) ==
    IF text = <<>> THEN <<current>>
    ELSE IF Head(text) = "/" THEN <<current>> \o SplitFrom(Tail(text), <<>>)
    ELSE SplitFrom(Tail(text), Append(current, Head(text)))

Segments(text) == SplitFrom(text, <<>>)

\* The segments left after "" and "." are dropped and ".." removes the one before.
RECURSIVE NormalizeSegments(_, _)
NormalizeSegments(segs, kept) ==
    IF segs = <<>> THEN kept
    ELSE IF Head(segs) \in {<<>>, <<".">>} THEN NormalizeSegments(Tail(segs), kept)
    ELSE IF Head(segs) = <<".", ".">>
         THEN NormalizeSegments(Tail(segs),
                                IF kept = <<>> THEN kept ELSE SubSeq(kept, 1, Len(kept) - 1))
    ELSE NormalizeSegments(Tail(segs), Append(kept, Head(segs)))

RECURSIVE JoinSegments(_)
JoinSegments(segs) ==
    IF segs = <<>> THEN <<>> ELSE <<"/">> \o Head(segs) \o JoinSegments(Tail(segs))

isAbsolute(path) == startsWith(path, <<"/">>)

\* process.cwd()
Cwd == <<"/", "w">>

\* path.resolve(from, to) for an absolute from and a relative to: the normalized
\* absolute path, without a trailing separator.
resolve(from, to) ==
    LET segs == NormalizeSegments(Segments(from) \o Segments(to), <<>>)
    IN  IF segs = <<>> THEN <<"/">> ELSE JoinSegments(segs)

\* The index of the last "/" of text, 0 when it has none.
LastSeparator(text) ==
    IF \E k \in 1..Len(text) : text[k] = "/"
    THEN CHOOSE k \in 1..Len(text) :
             text[k] = "/" /\ \A j \in (k + 1)..Len(text) : text[j] # "/"
    ELSE 0

\* path.dirname(path) for a path that does not end with a separator.
dirname(path) ==
    LET k == LastSeparator(path)
    IN  IF k = 0 THEN <<".">>
        ELSE IF k = 1 THEN <<"/">>
        ELSE SubSeq(path, 1, k - 1)

MdSuffix == <<".", "m", "d">>

resolvePath(inputPath) ==
    LET absolutePath == IF isAbsolute(inputPath) THEN inputPath ELSE resolve(Cwd, inputPath)
    IN  IF endsWith(absolutePath, MdSuffix)
        THEN [directory |-> dirname(absolutePath), initialFile |-> Def(absolutePath)]
        ELSE [directory |-> absolutePath, initialFile |-> Undefined]

DefaultPort == Num(0)
Localhost == <<"l", "o", "c", "a", "l", "h", "o", "s", "t">>
Dark == <<"d", "a", "r", "k">>
System == <<"s", "y", "s", "t", "e", "m">>

\* Supplied flags ignored: every field takes its default.
createConfigDefaultsOnly(p) ==
    LET location == resolvePath(OrElse(p.path, <<".">>))
    IN  [directory |-> location.directory, initialFile |-> location.initialFile,
         port |-> DefaultPort, host |-> Localhost, theme |-> Dark, fontTheme |-> System,
         open |-> TRUE, watch |-> FALSE]

createConfig(p) ==
    LET location == resolvePath(OrElse(p.path, <<".">>))
    IN  [directory |-> location.directory,
         initialFile |-> location.initialFile,
         port |-> OrElse(p.flags.port, DefaultPort),
         host |-> OrElse(p.flags.host, Localhost),
         theme |-> OrElse(p.flags.theme, Dark),
         fontTheme |-> OrElse(p.flags.fontTheme, System),
         open |-> OrElse(p.flags.open, TRUE),
         watch |-> OrElse(p.flags.watch, FALSE)]

(***************************************************************************)
(* Selection and popup (client side).                                      *)
(***************************************************************************)
\* The elements of a page in document order, each with its tag and the index of
\* its parent (0 for the root): a sidebar paragraph, and a content area holding two
\* paragraphs (the first with an inline element) and a table of two cells.
PageElements ==
    << [tag |-> "body", parent |-> 0],
       [tag |-> "nav", parent |-> 1],
       [tag |-> "p", parent |-> 2],
       [tag |-> "div", parent |-> 1],
       [tag |-> "p", parent |-> 4],
       [tag |-> "em", parent |-> 5],
       [tag |-> "p", parent |-> 4],
       [tag |-> "table", parent |-> 4],
       [tag |-> "tr", parent |-> 8],
       [tag |-> "td", parent |-> 9],
       [tag |-> "td", parent |-> 9] >>

\* document.querySelector(".content")
ContentArea == 4

\* The text nodes of the page in document order, each with its parent element.
PageTextNodes ==
    << [parent |-> 3, text |-> <<"s">>],
       [parent |-> 5, text |-> <<"b", " ">>],
       [parent |-> 6, text |-> <<"b">>],
       [parent |-> 7, text |-> <<"a", " ", "b">>],
       [parent |-> 4, text |-> <<" ">>],
       [parent |-> 10, text |-> <<"b">>],
       [parent |-> 11, text |-> <<"c">>] >>

\* The element and its ancestors, innermost first.
RECURSIVE AncestorsOrSelf(_)
AncestorsOrSelf(element) ==
    IF element = 0 THEN <<>>
    ELSE <<element>> \o AncestorsOrSelf(PageElements[element].parent)

\* container.contains(element)
Contains(container, element) ==
    \E k \in 1..Len(AncestorsOrSelf(element)) : AncestorsOrSelf(element)[k] = container

BlockParentTags == {"p", "h1", "h2", "h3", "h4", "h5", "h6", "li", "blockquote", "pre"}

\* getBlockParent from the element current on: the closest listed element below the
\* content area, 0 (null) when there is none.
RECURSIVE BlockParentFrom(_)
BlockParentFrom(current) ==
    IF current = 0 \/ current = ContentArea THEN 0
    ELSE IF PageElements[current].tag \in BlockParentTags THEN current
    ELSE BlockParentFrom(PageElements[current].parent)

\* getBlockParent(node) for a text node.
getBlockParent(node) == BlockParentFrom(PageTextNodes[node].parent)

\* The parent element of range.commonAncestorContainer (the container itself when
\* it is an element) for a range from text node first to text node last.
CommonAncestorElement(first, last) ==
    LET up == AncestorsOrSelf(PageTextNodes[first].parent)
        k == CHOOSE i \in 1..Len(up) :
                 /\ Contains(up[i], PageTextNodes[last].parent)
                 /\ \A j \in 1..(i - 1) : ~Contains(up[j], PageTextNodes[last].parent)
    IN  up[k]

\* The text of the text nodes first..last.
RECURSIVE TextOfNodes(_, _)
TextOfNodes(first, last) ==
    IF first > last THEN <<>>
    ELSE PageTextNodes[first].text \o TextOfNodes(first + 1, last)

\* The text of the content area before text node node (preRange.toString()).
RECURSIVE ContentTextBefore(_)
ContentTextBefore(node) ==
    IF node <= 1 THEN <<>>
    ELSE ContentTextBefore(node - 1)
             \o (IF Contains(ContentArea, PageTextNodes[node - 1].parent)
                 THEN PageTextNodes[node - 1].text ELSE <<>>)

ContentText == ContentTextBefore(Len(PageTextNodes) + 1)

NoSelection == [pending |-> FALSE]

\* hidePopup(): the popup, if created, is hidden and the pending selection dropped.
hidePopup(ui) ==
    [ui EXCEPT !.popup = IF ui.popup = "none" THEN "none" ELSE "hidden",
               !.currentSelection = NoSelection]

\* The handler without the test of the trimmed text.
handleTextSelectionKeepEmpty(ui, first, last, collapsed) ==
    IF collapsed THEN hidePopup(ui)
    ELSE IF getBlockParent(first) # getBlockParent(last) THEN hidePopup(ui)
    ELSE IF ~Contains(ContentArea, CommonAncestorElement(first, last)) THEN hidePopup(ui)
    ELSE [ui EXCEPT !.currentSelection =
                        [pending |-> TRUE, text |-> Trim(TextOfNodes(first, last)),
                         startContainer |-> first, endContainer |-> last],
                    !.popup = "shown"]

\* handleTextSelection for a selection from text node first to text node last
\* (collapsed: nothing selected); ui holds currentSelection and popup.
handleTextSelection(ui, first, last, collapsed) ==
    IF collapsed THEN hidePopup(ui)
    ELSE IF Trim(TextOfNodes(first, last)) = <<>> THEN hidePopup(ui)
    ELSE IF getBlockParent(first) # getBlockParent(last) THEN hidePopup(ui)
    ELSE IF ~Contains(ContentArea, CommonAncestorElement(first, last)) THEN hidePopup(ui)
    ELSE [ui EXCEPT !.currentSelection =
                        [pending |-> TRUE, text |-> Trim(TextOfNodes(first, last)),
                         startContainer |-> first, endContainer |-> last],
                    !.popup = "shown"]

\* What createHighlight does once the response is there, the failure hiding the
\* popup and clearing the textarea.
createHighlightSettledHiding(ui, ok) ==
    IF ok
    THEN [currentSelection |-> NoSelection, popup |-> "none", noteInput |-> <<>>,
          reloaded |-> TRUE]
    ELSE [currentSelection |-> NoSelection, popup |-> "hidden", noteInput |-> <<>>,
          reloaded |-> ui.reloaded]

\* What createHighlight does once the response is there: a response that is not ok
\* is logged and nothing else; an ok one reloads the page, which starts the script
\* anew (no selection, no popup, no text typed).
createHighlightSettled(ui, ok) ==
    IF ok
    THEN [currentSelection |-> NoSelection, popup |-> "none", noteInput |-> <<>>,
          reloaded |-> TRUE]
    ELSE ui

(***************************************************************************)
(* Inputs of the locator.                                                  *)
(***************************************************************************)
TestDoc == <<"t","e","s","t"," ","t","e","s","t"," ","t","e","s","t">>
TestText == <<"t","e","s","t">>
HelloDoc == <<"H","e","l","l","o"," "," "," "," ","W","o","r","l","d">>
HelloText == <<"H","e","l","l","o"," ","W","o","r","l","d">>
NewlineDoc == <<"a","\n","\n","b"," ","a","\t","b">>
NewlineText == <<"a"," ","b">>
AaaaDoc == <<"a","a","a","a","a","a">>
AaText == <<"a","a">>

Docs == SeqsUpTo(Chars, MaxDocLen)
Texts == SeqsUpTo(Chars, MaxTextLen) \ {<<>>}

LocatorInputs ==
    (Docs \X Texts)
        \cup {<<TestDoc, TestText>>, <<HelloDoc, HelloText>>, <<NewlineDoc, NewlineText>>,
              <<AaaaDoc, AaText>>}

NoTree == <<>>
NoParsed == [path |-> Undefined, flags |-> NoFlags]

\* The values the variables of a part keep while another part is explored.
IdleLocator ==
    /\ content = <<>>
    /\ searchText = <<>>
    /\ lstep = "input"
    /\ occurrences = <<>>
    /\ occurrenceIndex = -1
    /\ selStart = -1
    /\ resolved = NotFound

IdleRender ==
    /\ tree = NoTree
    /\ ranges = <<>>
    /\ renderResult = "none"
    /\ validation = Invalid
    /\ canonical = <<>>
    /\ prevTree = NoTree
    /\ splitLog = <<>>

IdleCli ==
    /\ args = <<>>
    /\ cstep = "input"
    /\ parsed = NoParsed
    /\ config = createConfig(NoParsed)

IdleInject ==
    /\ markdownIn = <<>>
    /\ highlightsIn = <<>>
    /\ injected = <<>>
    /\ istep = "input"

NoCreation == [active |-> FALSE]

IdleStore ==
    /\ source = <<>>
    /\ store = <<>>
    /\ now = 0
    /\ edits = 0
    /\ creating = NoCreation
    /\ lastOp = "none"
    /\ pageOut = <<>>
    /\ raced = {}

NoRequest == [phase |-> "none"]
NoEvent == [seen |-> FALSE]

IdleClient ==
    /\ currentSelection = NoSelection
    /\ popup = "none"
    /\ noteInput = <<>>
    /\ reloaded = FALSE
    /\ request = NoRequest
    /\ lastStatus = 0
    /\ lastSelection = NoEvent

NoRange == [set |-> FALSE]
NotIndexed == [done |-> FALSE]

IdleSelect ==
    /\ page = NoTree
    /\ selection = NoRange
    /\ indexed = NotIndexed

NoPathname == <<>>
NoResponse == [status |-> 0]

IdleServer ==
    /\ fileSystem = <<>>
    /\ httpRequest = NoPathname
    /\ httpResponse = NoResponse

IdleNav ==
    /\ doc = NoTree
    /\ hasContent = FALSE
    /\ hash = <<>>
    /\ nstep = "loaded"
    /\ scrollTimer = Undefined
    /\ flash = {}
    /\ scrolledTo = 0
    /\ navLog = <<>>

IdleWatcher ==
    /\ sockets = <<>>
    /\ wsRef = 0
    /\ reconnectTimers = {}
    /\ reconnectTimeout = 0
    /\ pageLoaded = FALSE
    /\ reloadCause = Undefined
    /\ watched = {}

IdleCreate ==
    /\ posts = <<>>

NoScan == [phase |-> "idle"]

IdleScan ==
    /\ scan = NoScan

InitLocator ==
    /\ \E in \in LocatorInputs : content = in[1] /\ searchText = in[2]
    /\ lstep = "input"
    /\ occurrences = <<>>
    /\ occurrenceIndex = -1
    /\ selStart = -1
    /\ resolved = NotFound
    /\ IdleRender
    /\ IdleCli
    /\ IdleInject
    /\ IdleStore
    /\ IdleClient
    /\ IdleSelect
    /\ IdleServer
    /\ IdleNav
    /\ IdleWatcher
    /\ IdleCreate
    /\ IdleScan

\* Server: findAllOccurrences(content, searchText).
FindAllOccurrences ==
    /\ lstep = "input"
    /\ occurrences' = findAllOccurrences(content, searchText)
    /\ lstep' = "searched"
    /\ UNCHANGED <<content, searchText, occurrenceIndex, selStart, resolved>>
    /\ UNCHANGED nonLocator

\* Server: findTextOffset(content, searchText, i).
FindTextOffset(i) ==
    /\ lstep = "searched"
    /\ occurrenceIndex' = i
    /\ resolved' = findTextOffset(content, searchText, i)
    /\ lstep' = "resolved"
    /\ UNCHANGED <<content, searchText, occurrences, selStart>>
    /\ UNCHANGED nonLocator

\* Client: handleTextSelection for a selection [p, q) of the page text whose
\* trimmed text is searchText; the range kept starts at p.
HandleTextSelection(p, q) ==
    /\ lstep = "input"
    /\ Trim(Slice(content, p, q)) = searchText
    /\ selStart' = p
    /\ lstep' = "selected"
    /\ UNCHANGED <<content, searchText, occurrences, occurrenceIndex, resolved>>
    /\ UNCHANGED nonLocator

\* Client: createHighlight computes the occurrence index and posts the request.
CreateHighlight ==
    /\ lstep = "selected"
    /\ occurrenceIndex' = calculateOccurrenceIndex(searchText, content, selStart)
    /\ lstep' = "requested"
    /\ UNCHANGED <<content, searchText, occurrences, selStart, resolved>>
    /\ UNCHANGED nonLocator

\* Server: POST /api/highlights resolves (highlightedText, occurrenceIndex)
\* against the source.
PostHighlight ==
    /\ lstep = "requested"
    /\ occurrences' = findAllOccurrences(content, searchText)
    /\ resolved' = findTextOffset(content, searchText, occurrenceIndex)
    /\ lstep' = "created"
    /\ UNCHANGED <<content, searchText, occurrenceIndex, selStart>>
    /\ UNCHANGED nonLocator

NextLocator ==
    \/ FindAllOccurrences
    \/ \E i \in 0..MaxIndex : FindTextOffset(i)
    \/ \E p \in 0..Len(content), q \in 0..Len(content) : HandleTextSelection(p, q)
    \/ CreateHighlight
    \/ PostHighlight

SpecLocator == InitLocator /\ [][NextLocator]_vars

(***************************************************************************)
(* Claims about the locator.                                               *)
(***************************************************************************)
\* Every start offset at which s occurs in text, overlapping occurrences included.
StartPositions(text, s) ==
    {q \in 0..Len(text) : Len(s) > 0 /\ q + Len(s) <= Len(text)
                           /\ Slice(text, q, q + Len(s)) = s}

StrictlyAscending(seq) == \A i \in 1..Len(seq), j \in 1..Len(seq) : i < j => seq[i] < seq[j]

\* C1: when the non-empty search text occurs in the document at k >= 1 start
\* positions (overlapping occurrences counted separately), findAllOccurrences
\* returns exactly those k positions, strictly ascending, and the document's slice
\* at each returned offset is the search text.
C1_AllOccurrences ==
    (lstep \in {"searched", "resolved"} /\ StartPositions(content, searchText) # {}) =>
        /\ Len(occurrences) = Cardinality(StartPositions(content, searchText))
        /\ {occurrences[k] : k \in 1..Len(occurrences)} = StartPositions(content, searchText)
        /\ StrictlyAscending(occurrences)
        /\ \A k \in 1..Len(occurrences) :
              Slice(content, occurrences[k], occurrences[k] + Len(searchText)) = searchText

\* Two overlapping occurrences have been returned.
C1_Witness ==
    /\ lstep = "searched"
    /\ Len(occurrences) >= 2
    /\ occurrences[2] < occurrences[1] + Len(searchText)

\* C2: findTextOffset(D, S, i) starts at the i-th offset of findAllOccurrences(D, S)
\* when 0 <= i < k and signals not-found when i >= k; "test test test" / "test":
\* index 1 gives [5, 9), index 5 gives not-found.
C2_TextOffset ==
    lstep = "resolved" =>
        /\ occurrenceIndex < Len(occurrences) =>
              /\ resolved.found
              /\ resolved.startOffset = occurrences[occurrenceIndex + 1]
        /\ occurrenceIndex >= Len(occurrences) => ~resolved.found
        /\ (content = TestDoc /\ searchText = TestText /\ occurrenceIndex = 1) =>
              resolved = [found |-> TRUE, startOffset |-> 5, endOffset |-> 9]
        /\ (content = TestDoc /\ searchText = TestText /\ occurrenceIndex = 5) =>
              resolved = NotFound

\* The second "test" of "test test test" has been resolved.
C2_Witness ==
    /\ lstep = "resolved"
    /\ content = TestDoc /\ searchText = TestText
    /\ occurrenceIndex = 1
    /\ resolved.found /\ resolved.startOffset = 5

\* C3 (as claimed): the index the client computes for a selection starting at p,
\* where the page text has the selected text at p, makes the server resolve the
\* range [p, p + len(S)).
C3_ClientServerAgree ==
    (lstep = "created" /\ OccursAt(content, searchText, selStart)) =>
        resolved = [found |-> TRUE, startOffset |-> selStart,
                    endOffset |-> selStart + Len(searchText)]

\* C4: when the search text has no exact occurrence but its normalization (which
\* has at least one character) occurs in the normalized document, the search falls
\* back to the normalized match and every range findTextOffset returns lies in the
\* raw document and normalizes to the normalized search text; when there is an
\* exact occurrence only the exact pass is used.
C4_NormalizedFallback ==
    lstep = "resolved" =>
        LET nd == normalizeWhitespace(content)
            ns == normalizeWhitespace(searchText)
            s == resolved.startOffset
            e == resolved.endOffset
        IN  /\ (StartPositions(content, searchText) = {} /\ StartPositions(nd, ns) # {}) =>
                  /\ Len(occurrences) = Cardinality(StartPositions(nd, ns))
                  /\ occurrenceIndex < Len(occurrences) => resolved.found
                  /\ resolved.found =>
                        /\ 0 <= s /\ s < e /\ e <= Len(content)
                        /\ s = occurrences[occurrenceIndex + 1]
                        /\ normalizeWhitespace(Slice(content, s, e)) = ns
            /\ StartPositions(content, searchText) # {} =>
                  /\ {occurrences[k] : k \in 1..Len(occurrences)} =
                        StartPositions(content, searchText)
                  /\ resolved.found => Slice(content, s, e) = searchText
            /\ (content = HelloDoc /\ searchText = HelloText /\ occurrenceIndex = 0) =>
                  resolved = [found |-> TRUE, startOffset |-> 0, endOffset |-> 14]

\* "Hello    World" searched for "Hello World" resolved by the normalized pass.
C4_Witness ==
    /\ lstep = "resolved"
    /\ content = HelloDoc /\ searchText = HelloText
    /\ StartPositions(content, searchText) = {}
    /\ resolved.found /\ resolved.endOffset - resolved.startOffset > Len(searchText)

(***************************************************************************)
(* Inputs of the render side.                                              *)
(***************************************************************************)
Range(i, s, e, st) == [id |-> i, startOffset |-> s, endOffset |-> e, isStale |-> st]

\* The (startOffset, endOffset) pairs of the enumerated batches: every valid range
\* up to MaxOff, and the invalid ones with a negative start, an empty extent or
\* the end one before the start.
RangeShapes == {p \in (-1..MaxOff) \X (0..MaxOff) : p[1] - p[2] <= 1}

Shapes == UNION {[1..n -> RangeShapes] : n \in 0..MaxRanges}

\* A batch: the k-th range has id k; the first one may be stale.
Batch(f, st) ==
    [k \in 1..Len(f) |-> Range(k, f[k][1], f[k][2], st /\ k = 1)]

Batches == {Batch(f, st) : f \in Shapes, st \in BOOLEAN}

OverlapBatch == <<Range(1, 0, 5, FALSE), Range(2, 3, 8, FALSE)>>
TouchBatch == <<Range(1, 0, 5, FALSE), Range(2, 5, 8, FALSE)>>
ABBatch == <<Range(1, 6, 8, FALSE), Range(2, 0, 2, FALSE)>>
ThreeBatch == <<Range(1, 5, 7, FALSE), Range(2, 0, 2, FALSE), Range(3, 2, 4, FALSE)>>
NestedBatch == <<Range(1, 0, 8, FALSE), Range(2, 2, 3, FALSE), Range(3, 4, 6, FALSE)>>

PlainTree == <<TextNode(<<"a", "b", "c">>)>>
InlineTree ==
    <<Element(<<TextNode(<<"a", "b">>), Element(<<TextNode(<<"c", "d">>)>>),
                TextNode(<<"e">>)>>)>>
MarkedTree ==
    <<TextNode(<<"a">>), MarkElement(1, FALSE, <<TextNode(<<"b">>)>>), TextNode(<<"c">>)>>
DeepMarkTree ==
    <<Element(<<MarkElement(2, FALSE, <<TextNode(<<"a">>), Element(<<TextNode(<<"b">>)>>)>>),
                TextNode(<<"c">>)>>),
      Element(<<TextNode(<<"d">>)>>)>>
NestedMarkTree ==
    <<MarkElement(1, FALSE, <<TextNode(<<"a">>), MarkElement(2, FALSE, <<TextNode(<<"b">>)>>)>>),
      TextNode(<<"c">>)>>
ABTree ==
    <<Element(<<TextNode(<<"A", "B", " ">>), Element(<<TextNode(<<"C", "D">>)>>),
                TextNode(<<" ", "E", "F">>)>>)>>

Trees == {PlainTree, InlineTree, MarkedTree, DeepMarkTree, NestedMarkTree}

RenderInputs ==
    (Trees \X Batches)
        \cup ({ABTree, MarkedTree} \X {OverlapBatch, TouchBatch, ABBatch, ThreeBatch, NestedBatch})

InitRender ==
    /\ \E in \in RenderInputs : tree = in[1] /\ ranges = in[2]
    /\ renderResult = "none"
    /\ validation = Invalid
    /\ canonical = <<>>
    /\ prevTree = NoTree
    /\ splitLog = <<>>
    /\ IdleLocator
    /\ IdleCli
    /\ IdleInject
    /\ IdleStore
    /\ IdleClient
    /\ IdleSelect
    /\ IdleServer
    /\ IdleNav
    /\ IdleWatcher
    /\ IdleCreate
    /\ IdleScan

\* Client: renderHighlights(root, ranges).
RenderHighlights ==
    /\ LET r == renderHighlights(tree, ranges)
       IN  /\ tree' = r.tree
           /\ renderResult' = IF r.success THEN "success" ELSE "error"
           /\ validation' = r.validation
    /\ canonical' = extractCanonicalText(normalize(removeExistingHighlights(tree)))
    /\ prevTree' = tree
    /\ splitLog' = renderHighlightsSplits(tree, ranges)
    /\ UNCHANGED ranges
    /\ UNCHANGED nonRender

NextRender == RenderHighlights

SpecRender == InitRender /\ [][NextRender]_vars

(***************************************************************************)
(* Claims about the render side.                                           *)
(***************************************************************************)
\* document.querySelectorAll("mark.llmd-highlight") under the root: the highlight
\* marks in document order, each with its id, its stale class and its textContent.
RECURSIVE MarksOf(_)
MarksOf(nodes) ==
    IF nodes = <<>> THEN <<>>
    ELSE LET n == Head(nodes)
         IN  (IF n.kind = "text" THEN <<>>
              ELSE (IF n.highlight
                    THEN <<[id |-> n.id, stale |-> n.stale, text |-> textContent(n.children)]>>
                    ELSE <<>>) \o MarksOf(n.children))
                 \o MarksOf(Tail(nodes))

RECURSIVE ConcatText(_)
ConcatText(marks) ==
    IF marks = <<>> THEN <<>> ELSE Head(marks).text \o ConcatText(Tail(marks))

\* The text wrapped by the marks carrying id i, in document order.
MarkedText(nodes, i) == ConcatText(SelectSeq(MarksOf(nodes), LAMBDA m : m.id = i))

Intersects(a, b) == a.startOffset < b.endOffset /\ b.startOffset < a.endOffset

WellFormed(r) == 0 <= r.startOffset /\ r.startOffset < r.endOffset

\* Every range well formed and no two distinct ranges of the batch intersecting.
BatchOk(rs) ==
    /\ \A k \in 1..Len(rs) : WellFormed(rs[k])
    /\ \A i \in 1..Len(rs), j \in 1..Len(rs) : i # j => ~Intersects(rs[i], rs[j])

\* The characters of text at the offsets no range of rs covers, in order.
RECURSIVE UncoveredFrom(_, _, _)
UncoveredFrom(text, rs, k) ==
    IF k >= Len(text) THEN <<>>
    ELSE (IF \E i \in 1..Len(rs) : rs[i].startOffset <= k /\ k < rs[i].endOffset
          THEN <<>> ELSE <<text[k + 1]>>)
             \o UncoveredFrom(text, rs, k + 1)

\* C5: validateHighlightRanges accepts a batch exactly when every range has
\* 0 <= startOffset < endOffset and no two distinct ranges intersect (any pair, not
\* only neighbours); touching ranges pass: [0,5),[3,8) fails, [0,5),[5,8) passes.
C5_ValidatorAccepts ==
    renderResult # "none" =>
        /\ validation.valid <=> BatchOk(ranges)
        /\ ranges = OverlapBatch => ~validation.valid
        /\ ranges = TouchBatch => validation.valid

\* The touching ranges [0,5) and [5,8) have been accepted.
C5_Witness ==
    /\ renderResult # "none"
    /\ ranges = TouchBatch
    /\ validation.valid

\* C6: after a successful renderHighlights on a tree whose canonical text (old
\* marks unwrapped) is C, the marks carrying the id of a range r wrap, in document
\* order, exactly C.slice(r.startOffset, r.endOffset), for every range of the batch.
C6_MarksWrapTheirRange ==
    renderResult = "success" =>
        \A k \in 1..Len(ranges) :
            MarkedText(tree, ranges[k].id) =
                Slice(canonical, ranges[k].startOffset, ranges[k].endOffset)

\* A batch of two ranges has been applied and one of them spans several text nodes.
C6_Witness ==
    /\ renderResult = "success"
    /\ Len(ranges) >= 2
    /\ \E k \in 1..Len(ranges) :
          Len(SelectSeq(MarksOf(tree), LAMBDA m : m.id = ranges[k].id)) >= 2
    /\ \A k \in 1..Len(ranges) : MarkedText(tree, ranges[k].id) # <<>>

\* C7: after a successful renderHighlights on a tree with canonical text C,
\* extractCanonicalText gives C without exactly the characters the ranges cover:
\* "AB CD EF" with [0,2) and [6,8) gives " CD ".
C7_CanonicalExcludesMarked ==
    renderResult = "success" =>
        /\ extractCanonicalText(tree) = UncoveredFrom(canonical, ranges, 0)
        /\ (prevTree = ABTree /\ ranges = ABBatch) =>
              extractCanonicalText(tree) = <<" ", "C", "D", " ">>

\* "AB CD EF" has been rendered with [0,2) and [6,8).
C7_Witness ==
    /\ renderResult = "success"
    /\ prevTree = ABTree /\ ranges = ABBatch
    /\ canonical = <<"A", "B", " ", "C", "D", " ", "E", "F">>
    /\ Len(MarksOf(tree)) = 2

\* C8: a further renderHighlights with the same valid batch leaves the tree as the
\* previous call left it, and no mark is nested in another.
C8_Idempotent ==
    [][renderResult = "success" =>
          /\ renderResult' = "success"
          /\ tree' = tree
          /\ \A k \in 1..Len(MarksOf(tree')) : MarksOf(tree')[k].text # <<>>
          /\ Len(textContent(tree')) =
                Len(extractCanonicalText(tree')) + Len(ConcatText(MarksOf(tree')))]_vars

\* The last call was made on a tree that already carried the marks of the batch.
C8_Witness ==
    /\ renderResult = "success"
    /\ prevTree = tree
    /\ Len(MarksOf(tree)) >= 2

\* C9: a batch that fails validation is rejected as a whole: renderHighlights
\* returns an error exactly when the batch is not valid, and then the tree holds no
\* mark for any range, the valid ones included.
C9_AtomicRejection ==
    renderResult # "none" =>
        /\ renderResult = "error" <=> ~BatchOk(ranges)
        /\ renderResult = "error" => MarksOf(tree) = <<>>

\* A batch was rejected that holds a well-formed range inside the text which
\* intersects no other range of the batch.
C9_Witness ==
    /\ renderResult = "error"
    /\ \E k \in 1..Len(ranges) :
          /\ WellFormed(ranges[k])
          /\ ranges[k].endOffset <= Len(canonical)
          /\ \A j \in 1..Len(ranges) : j # k => ~Intersects(ranges[k], ranges[j])

\* C10 (as claimed): no mark in the rendered tree carries the id of a highlight
\* whose isStale flag is true.
C10_StaleNeverWrapped ==
    renderResult = "success" =>
        \A k \in 1..Len(ranges) :
            ranges[k].isStale =>
                \A m \in 1..Len(MarksOf(tree)) : MarksOf(tree)[m].id # ranges[k].id

\* isInsideHighlight(node, root) for the node at path: one of its ancestors below
\* the root is a highlight mark.
InsideHighlight(nodes, path) ==
    \E d \in 1..(Len(path) - 1) : NodeAt(nodes, SubSeq(path, 1, d)).highlight

\* C22: the map buildTextNodeMap builds for the tree starts at 0, every record
\* starts where the previous one ends, each record is as long as the text of its
\* node, no record is for a text node inside a mark, and the last record ends at
\* the length of extractCanonicalText of the same tree.
C22_OffsetMapContiguous ==
    LET mappings == buildTextNodeMap(tree)
        n == Len(mappings)
    IN  /\ n > 0 => mappings[1].globalStartOffset = 0
        /\ \A k \in 2..n :
              mappings[k].globalStartOffset = mappings[k - 1].globalEndOffset
        /\ \A k \in 1..n :
              /\ NodeAt(tree, mappings[k].node).kind = "text"
              /\ mappings[k].globalEndOffset - mappings[k].globalStartOffset
                     = Len(NodeAt(tree, mappings[k].node).text)
              /\ ~InsideHighlight(tree, mappings[k].node)
        /\ (IF n = 0 THEN 0 ELSE mappings[n].globalEndOffset)
              = Len(extractCanonicalText(tree))

\* The tree carries marks with text in them and the map has several records.
C22_Witness ==
    /\ renderResult = "success"
    /\ Len(buildTextNodeMap(tree)) >= 2
    /\ Len(ConcatText(MarksOf(tree))) >= 2
    /\ Len(extractCanonicalText(tree)) < Len(textContent(tree))

\* No text node of the tree, inside or outside a mark, has empty text.
RECURSIVE NoEmptyTextNode(_)
NoEmptyTextNode(nodes) ==
    \A k \in 1..Len(nodes) :
        IF nodes[k].kind = "text" THEN nodes[k].text # <<>>
        ELSE NoEmptyTextNode(nodes[k].children)

\* C24: a call of renderHighlights, successful or failed, leaves the text of the
\* document (the text of all its text nodes in document order, those inside marks
\* included) as it was, and leaves no empty text node in the tree.
C24_TextPreserved ==
    [][/\ textContent(tree') = textContent(tree)
       /\ NoEmptyTextNode(tree')]_vars

\* A mark has been put at the very start of a text node and one at the very end,
\* in a document that carried a mark before the call.
C24_Witness ==
    /\ renderResult = "success"
    /\ MarksOf(prevTree) # <<>>
    /\ Len(ranges) = 2
    /\ \E k \in 1..Len(ranges) : ranges[k].startOffset = 0
    /\ \E k \in 1..Len(ranges) : ranges[k].endOffset = Len(canonical)
    /\ Len(MarksOf(tree)) >= 2
    /\ textContent(tree) = textContent(prevTree)

\* C29: when renderHighlights returns the error of the validator, the tree is the
\* one it had before the call with every mark unwrapped and the text nodes
\* normalized: it holds no mark element, whatever marks it held before.
C29_FailureUnwraps ==
    [][renderResult' = "error" =>
          /\ ~validation'.valid
          /\ tree' = normalize(removeExistingHighlights(tree))
          /\ MarksOf(tree') = <<>>
          /\ extractCanonicalText(tree') = textContent(tree)]_vars

\* A batch was rejected on a tree that carried marks: they are gone.
C29_Witness ==
    /\ renderResult = "error"
    /\ MarksOf(prevTree) # <<>>
    /\ MarksOf(tree) = <<>>
    /\ tree # prevTree

\* C23 (as claimed): every split of a call of renderHighlights uses offsets from a
\* map built after the split before it: no split is made with a map that is older
\* than a split of the same call.
C23_MapRebuiltAfterEverySplit ==
    \A k \in 1..Len(splitLog) : splitLog[k].mapAge = 0

(***************************************************************************)
(* Command line: inputs, actions.                                          *)
(***************************************************************************)
ShortPort == <<"-", "p">>
ShortTheme == <<"-", "t">>
ShortOpen == <<"-", "o">>
ShortWatch == <<"-", "w">>
ShortNoOpen == <<"-", "n">>
ShortHelp == <<"-", "h">>
ShortVersion == <<"-", "v">>

Port80 == <<"8", "0">>
Port3000 == <<"3", "0", "0", "0">>
Port8080 == <<"8", "0", "8", "0">>
Light == <<"l", "i", "g", "h", "t">>
DocsPath == <<".", "/", "d", "o", "c", "s">>
FilePath == <<".", "/", "d", "/", "a", ".", "m", "d">>
SlashPath == <<"a", ".", "m", "d", "/">>
AbsolutePath == <<"/", "x", "/", "b", ".", "m", "d">>

LongFlags ==
    {LongPort, LongTheme, LongOpen, LongWatch, LongNoOpen, LongHelp, LongVersion,
     LongHost, LongFontTheme, LongNoWatch}
ShortFlags ==
    {ShortPort, ShortTheme, ShortOpen, ShortWatch, ShortNoOpen, ShortHelp, ShortVersion}
Values == {Port80, Light, <<>>, DocsPath, FilePath, SlashPath, AbsolutePath}
Tokens == LongFlags \cup ShortFlags \cup Values

\* The argument lists of the repository's tests for short flags and overrides.
ShortFlagsArgs == <<ShortPort, Port3000, ShortTheme, Light, ShortOpen, ShortWatch>>
OverrideArgs == <<LongPort, Port8080, LongTheme, Dark, LongNoOpen>>

ArgLists == SeqsUpTo(Tokens, MaxArgs) \cup {ShortFlagsArgs, OverrideArgs}

InitCli ==
    /\ args \in ArgLists
    /\ cstep = "input"
    /\ parsed = NoParsed
    /\ config = createConfig(NoParsed)
    /\ IdleLocator
    /\ IdleRender
    /\ IdleInject
    /\ IdleStore
    /\ IdleClient
    /\ IdleSelect
    /\ IdleServer
    /\ IdleNav
    /\ IdleWatcher
    /\ IdleCreate
    /\ IdleScan

\* parseCli: const parsed = parseArgs(args).
ParseArgs ==
    /\ cstep = "input"
    /\ parsed' = parseArgs(args)
    /\ cstep' = "parsed"
    /\ UNCHANGED <<args, config>>
    /\ UNCHANGED nonCli

\* parseCli: const config = createConfig(parsed).
CreateConfig ==
    /\ cstep = "parsed"
    /\ config' = createConfig(parsed)
    /\ cstep' = "configured"
    /\ UNCHANGED <<args, parsed>>
    /\ UNCHANGED nonCli

NextCli ==
    \/ ParseArgs
    \/ CreateConfig

SpecCli == InitCli /\ [][NextCli]_vars

(***************************************************************************)
(* Claims about the command line.                                          *)
(***************************************************************************)
LongOf(token) ==
    IF token = ShortPort THEN LongPort
    ELSE IF token = ShortTheme THEN LongTheme
    ELSE IF token = ShortOpen THEN LongOpen
    ELSE IF token = ShortWatch THEN LongWatch
    ELSE IF token = ShortNoOpen THEN LongNoOpen
    ELSE IF token = ShortHelp THEN LongHelp
    ELSE IF token = ShortVersion THEN LongVersion
    ELSE token

LongForm(argv) == [k \in 1..Len(argv) |-> LongOf(argv[k])]

\* C18 (as claimed): an argument list parses to the same flags and path as the
\* list with every short flag replaced by its long form; "-p 3000 -t light -o -w"
\* gives port 3000, theme light, open and watch true.
C18_ShortLikeLong ==
    cstep # "input" =>
        /\ parsed = parseArgs(LongForm(args))
        /\ args = ShortFlagsArgs =>
              /\ parsed.flags.port = Def(Num(3000))
              /\ parsed.flags.theme = Def(Light)
              /\ parsed.flags.open = Def(TRUE)
              /\ parsed.flags.watch = Def(TRUE)

\* The absolute form createConfig works on.
AbsoluteOf(path) == IF isAbsolute(path) THEN path ELSE resolve(Cwd, path)

GivenPath == OrElse(parsed.path, <<".">>)

\* Every field of the configuration has the value of its flag when parsed.flags
\* defines it and its default otherwise.
FlagsOrDefaults ==
    /\ config.port = (IF parsed.flags.port.defined THEN parsed.flags.port.value ELSE Num(0))
    /\ config.host =
          (IF parsed.flags.host.defined THEN parsed.flags.host.value ELSE Localhost)
    /\ config.theme = (IF parsed.flags.theme.defined THEN parsed.flags.theme.value ELSE Dark)
    /\ config.open = (IF parsed.flags.open.defined THEN parsed.flags.open.value ELSE TRUE)
    /\ config.watch = (IF parsed.flags.watch.defined THEN parsed.flags.watch.value ELSE FALSE)

\* The path names a markdown file (isFile) or a directory.
LocationIs(isFile) ==
    IF isFile
    THEN /\ config.directory = dirname(AbsoluteOf(GivenPath))
         /\ config.initialFile = Def(AbsoluteOf(GivenPath))
    ELSE /\ config.directory = AbsoluteOf(GivenPath)
         /\ config.initialFile = Undefined

EndsInMdComponent(path) ==
    IF isAbsolute(path) THEN endsWith(path, MdSuffix)
    ELSE LET segs == NormalizeSegments(Segments(Cwd) \o Segments(path), <<>>)
         IN  segs # <<>> /\ endsWith(segs[Len(segs)], MdSuffix)

AbcDoc == <<"a", "b", "c">>
AbCdDoc == <<"a", "b", " ", "c", "d">>
InjectDocs == {<<>>, AbcDoc, AbCdDoc}

InitInject ==
    /\ markdownIn \in InjectDocs
    /\ highlightsIn \in Batches
    /\ injected = <<>>
    /\ istep = "input"
    /\ IdleLocator
    /\ IdleRender
    /\ IdleCli
    /\ IdleStore
    /\ IdleClient
    /\ IdleSelect
    /\ IdleServer
    /\ IdleNav
    /\ IdleWatcher
    /\ IdleCreate
    /\ IdleScan

\* Server: injectHighlightMarks(markdownIn, highlightsIn).
InjectHighlightMarks ==
    /\ istep = "input"
    /\ injected' = injectHighlightMarks(markdownIn, highlightsIn)
    /\ istep' = "injected"
    /\ UNCHANGED <<markdownIn, highlightsIn>>
    /\ UNCHANGED nonInject

NextInject == InjectHighlightMarks

SpecInject == InitInject /\ [][NextInject]_vars

IsMarker(c) ==
    c = CloseMarker \/ \E k \in 1..Len(highlightsIn) : c = OpenMarker(highlightsIn[k].id)

\* The text with the markers deleted.
StripMarkers(text) == SelectSeq(text, LAMBDA c : ~IsMarker(c))

\* The text between the open marker carrying id and the first close marker after it.
BetweenMarkers(text, id) ==
    LET o == CHOOSE k \in 1..Len(text) : text[k] = OpenMarker(id)
        c == CHOOSE k \in (o + 1)..Len(text) :
                 text[k] = CloseMarker /\ \A j \in (o + 1)..(k - 1) : text[j] # CloseMarker
    IN  SubSeq(text, o + 1, c - 1)

\* Non-stale, well formed, pairwise non-overlapping ranges inside the source.
Injectable(text, hs) ==
    /\ BatchOk(hs)
    /\ \A k \in 1..Len(hs) : ~hs[k].isStale /\ hs[k].endOffset <= Len(text)

\* C14: for a source and non-stale, pairwise non-overlapping highlights lying inside
\* it, the injected text without its markers is the source, each highlight has
\* exactly one open marker, and the text between that marker and its close marker
\* is source.slice(startOffset, endOffset).
C14_InjectionPreservesSource ==
    (istep = "injected" /\ Injectable(markdownIn, highlightsIn)) =>
        /\ StripMarkers(injected) = markdownIn
        /\ \A k \in 1..Len(highlightsIn) :
              /\ Cardinality({j \in 1..Len(injected) :
                                 injected[j] = OpenMarker(highlightsIn[k].id)}) = 1
              /\ BetweenMarkers(injected, highlightsIn[k].id) =
                    Slice(markdownIn, highlightsIn[k].startOffset, highlightsIn[k].endOffset)

\* Two highlights given in ascending order have been injected into "ab cd".
C14_Witness ==
    /\ istep = "injected"
    /\ markdownIn = AbCdDoc
    /\ Injectable(markdownIn, highlightsIn)
    /\ Len(highlightsIn) = 2
    /\ highlightsIn[1].startOffset < highlightsIn[2].startOffset
    /\ Len(injected) = Len(markdownIn) + 4

(***************************************************************************)
(* Record store: inputs, actions.                                          *)
(***************************************************************************)
AbabDoc == <<"a", "b", "a", "b">>
SpacedDoc == <<"a", " ", " ", "b">>
GoneDoc == <<"c", "c">>
StoreDocs == {AbabDoc, SpacedDoc, GoneDoc}

BText == <<"b">>
ASpaceBText == <<"a", " ", "b">>
RequestTexts == {BText, ASpaceBText}

ANote == <<"n">>

\* The bodies of the creation requests.
Requests ==
    [highlightedText : RequestTexts, occurrenceIndex : 0..1, notes : {Undefined, Def(ANote)}]

InitStore ==
    /\ source \in StoreDocs
    /\ store = <<>>
    /\ now = 0
    /\ edits = 0
    /\ creating = NoCreation
    /\ lastOp = "none"
    /\ pageOut = <<>>
    /\ raced = {}
    /\ IdleLocator
    /\ IdleRender
    /\ IdleCli
    /\ IdleInject
    /\ IdleClient
    /\ IdleSelect
    /\ IdleServer
    /\ IdleNav
    /\ IdleWatcher
    /\ IdleCreate
    /\ IdleScan

\* POST /api/highlights, first half: the source is read and the request resolved
\* against it; an unresolvable request is answered 400 and nothing is written.
CreateRead(req) ==
    /\ ~creating.active
    /\ Len(store) < MaxHighlights
    /\ now < MaxClock
    /\ LET found == findTextOffset(source, req.highlightedText, req.occurrenceIndex)
       IN  IF found.found
           THEN /\ creating' = [active |-> TRUE, request |-> req, found |-> found,
                                text |-> source]
                /\ lastOp' = "read"
           ELSE /\ creating' = NoCreation
                /\ lastOp' = "reject"
    /\ UNCHANGED <<source, store, now, edits, pageOut, raced>>
    /\ UNCHANGED nonStore

\* POST /api/highlights, second half: the record is written.
CreateWrite ==
    /\ creating.active
    /\ store' = Append(store, NewHighlight(now + 1, ReadmePath, creating.request,
                                           creating.found, creating.text))
    /\ now' = now + 1
    /\ creating' = NoCreation
    /\ lastOp' = "create"
    /\ raced' = IF creating.text # source THEN raced \cup {now + 1} ELSE raced
    /\ UNCHANGED <<source, edits, pageOut>>
    /\ UNCHANGED nonStore

\* The document is edited outside the system.
EditDocument(text) ==
    /\ edits < MaxEdits
    /\ text # source
    /\ source' = text
    /\ edits' = edits + 1
    /\ lastOp' = "edit"
    /\ UNCHANGED <<store, now, creating, pageOut, raced>>
    /\ UNCHANGED nonStore

\* GET of the page: the source is read, every record of the document revalidated
\* against it, and the marks of the non-stale ones injected.
RenderPage ==
    /\ LET checked == revalidateAll(source, store, now + 1)
       IN  /\ store' = checked
           /\ now' = IF checked # store THEN now + 1 ELSE now
           /\ pageOut' = injectHighlightMarks(source, checked)
    /\ lastOp' = "render"
    /\ UNCHANGED <<source, edits, creating, raced>>
    /\ UNCHANGED nonStore

\* The notes of the k-th record are edited.
EditNotes(k, text) ==
    /\ k \in 1..Len(store)
    /\ now < MaxClock
    /\ store[k].notes # Def(text)
    /\ store' = [store EXCEPT ![k].notes = Def(text), ![k].updatedAt = now + 1]
    /\ now' = now + 1
    /\ lastOp' = "notes"
    /\ UNCHANGED <<source, edits, creating, pageOut, raced>>
    /\ UNCHANGED nonStore

\* DELETE /api/highlights/:id for the k-th record.
DeleteHighlight(k) ==
    /\ k \in 1..Len(store)
    /\ store' = [j \in 1..(Len(store) - 1) |-> IF j < k THEN store[j] ELSE store[j + 1]]
    /\ lastOp' = "delete"
    /\ UNCHANGED <<source, now, edits, creating, pageOut, raced>>
    /\ UNCHANGED nonStore

NextStore ==
    \/ \E req \in Requests : CreateRead(req)
    \/ CreateWrite
    \/ \E text \in StoreDocs : EditDocument(text)
    \/ RenderPage
    \/ \E k \in 1..MaxHighlights : EditNotes(k, ANote)
    \/ \E k \in 1..MaxHighlights : DeleteHighlight(k)

SpecStore == InitStore /\ [][NextStore]_vars

(***************************************************************************)
(* Claims about the record store.                                          *)
(***************************************************************************)
\* C11: after a render, every stored highlight whose text at its stored range no
\* longer matches its highlightedText (both normalized, in the source that render
\* read) has its persisted isStale flag set; so has every highlight whose text the
\* source no longer holds in any form, also when its record was written after an
\* edit that followed the read of its creation.
C11_StaleAfterRender ==
    lastOp = "render" =>
        \A k \in 1..Len(store) :
            /\ normalizeWhitespace(Slice(source, store[k].startOffset, store[k].endOffset))
                   # normalizeWhitespace(store[k].highlightedText)
                  => store[k].isStale
            /\ findAllOccurrences(source, store[k].highlightedText) = <<>>
                  => store[k].isStale

\* A record written after an edit removed its text has been rendered: it is stale
\* and no marker of the page carries its id.
C11_Witness ==
    /\ lastOp = "render"
    /\ \E k \in 1..Len(store) :
          /\ store[k].id \in raced
          /\ findAllOccurrences(source, store[k].highlightedText) = <<>>
          /\ store[k].isStale
          /\ \A j \in 1..Len(pageOut) : pageOut[j] # OpenMarker(store[k].id)

\* C12 (as claimed): no two non-stale highlights of the same resourcePath have
\* intersecting ranges.
C12_NoOverlapInStore ==
    \A i \in 1..Len(store), j \in 1..Len(store) :
        (i # j /\ store[i].resourcePath = store[j].resourcePath
             /\ ~store[i].isStale /\ ~store[j].isStale)
            => ~Intersects(store[i], store[j])

\* C13: a step of the store leaves the id, resourcePath, startOffset, endOffset and
\* highlightedText of every record it keeps as they were.
C13_NeverRelocated ==
    [][\A i \in 1..Len(store), j \in 1..Len(store') :
          store[i].id = store'[j].id =>
              /\ store'[j].resourcePath = store[i].resourcePath
              /\ store'[j].startOffset = store[i].startOffset
              /\ store'[j].endOffset = store[i].endOffset
              /\ store'[j].highlightedText = store[i].highlightedText]_vars

\* A render has marked a record stale whose text the edited source holds at another
\* place, and the record still has the range it was created with.
C13_Witness ==
    /\ lastOp = "render"
    /\ \E k \in 1..Len(store) :
          /\ store[k].isStale
          /\ store[k].updatedAt > store[k].createdAt
          /\ findTextOffset(source, store[k].highlightedText, 0).found
          /\ findTextOffset(source, store[k].highlightedText, 0).startOffset
                 # store[k].startOffset

(***************************************************************************)
(* Client: inputs, actions.                                                *)
(***************************************************************************)
Ui == [currentSelection |-> currentSelection, popup |-> popup, noteInput |-> noteInput,
       reloaded |-> reloaded]

\* The source the server reads: the text the page was rendered from, or an edited
\* one that has lost it.
ClientSources == {ContentText, GoneDoc}

InitClient ==
    /\ IdleClient
    /\ source \in ClientSources
    /\ store = <<>>
    /\ now = 0
    /\ edits = 0
    /\ creating = NoCreation
    /\ lastOp = "none"
    /\ pageOut = <<>>
    /\ raced = {}
    /\ IdleLocator
    /\ IdleRender
    /\ IdleCli
    /\ IdleInject
    /\ IdleSelect
    /\ IdleServer
    /\ IdleNav
    /\ IdleWatcher
    /\ IdleCreate
    /\ IdleScan

\* mouseup / touchend: handleTextSelection for a selection from text node first to
\* text node last; an event inside the popup is ignored.
HandleSelectionEvent(first, last, collapsed, inPopup) ==
    /\ first <= last
    /\ collapsed => first = last
    /\ inPopup => popup # "none"
    /\ IF inPopup
       THEN UNCHANGED <<currentSelection, popup, lastSelection>>
       ELSE LET after == handleTextSelection(Ui, first, last, collapsed)
            IN  /\ currentSelection' = after.currentSelection
                /\ popup' = after.popup
                /\ lastSelection' = [seen |-> TRUE, startContainer |-> first,
                                     endContainer |-> last, collapsed |-> collapsed]
    /\ UNCHANGED <<noteInput, reloaded, request, lastStatus, source, store, now>>
    /\ UNCHANGED nonClient

\* The user types into the textarea of the popup.
TypeNote(text) ==
    /\ popup = "shown"
    /\ noteInput # text
    /\ noteInput' = text
    /\ UNCHANGED <<currentSelection, popup, reloaded, request, lastStatus, lastSelection,
                   source, store, now>>
    /\ UNCHANGED nonClient

\* The close button of the popup: hidePopup().
ClosePopup ==
    /\ popup = "shown"
    /\ currentSelection' = hidePopup(Ui).currentSelection
    /\ popup' = hidePopup(Ui).popup
    /\ UNCHANGED <<noteInput, reloaded, request, lastStatus, lastSelection,
                   source, store, now>>
    /\ UNCHANGED nonClient

\* The create button: createHighlight up to the fetch.
SendCreateRequest ==
    /\ popup = "shown"
    /\ currentSelection.pending
    /\ request.phase = "none"
    /\ Len(store) < MaxCreated
    /\ request' =
          [phase |-> "sent",
           highlightedText |-> currentSelection.text,
           occurrenceIndex |->
               calculateOccurrenceIndex(
                   currentSelection.text, ContentText,
                   Len(ContentTextBefore(currentSelection.startContainer))),
           notes |-> IF Trim(noteInput) = <<>> THEN Undefined ELSE Def(Trim(noteInput))]
    /\ UNCHANGED <<currentSelection, popup, noteInput, reloaded, lastStatus, lastSelection,
                   source, store, now>>
    /\ UNCHANGED nonClient

\* Server: POST /api/highlights: 400 when the request does not resolve against the
\* source, else the record is stored.
PostHighlights ==
    /\ request.phase = "sent"
    /\ LET found == findTextOffset(source, request.highlightedText, request.occurrenceIndex)
       IN  IF found.found
           THEN /\ store' = Append(store, NewHighlight(now + 1, ReadmePath, request,
                                                       found, source))
                /\ now' = now + 1
                /\ request' = [phase |-> "answered", status |-> 200]
           ELSE /\ request' = [phase |-> "answered", status |-> 400]
                /\ UNCHANGED <<store, now>>
    /\ UNCHANGED <<currentSelection, popup, noteInput, reloaded, lastStatus, lastSelection,
                   source>>
    /\ UNCHANGED nonClient

\* createHighlight after the fetch.
ReceiveResponse ==
    /\ request.phase = "answered"
    /\ LET after == createHighlightSettled(Ui, request.status = 200)
       IN  /\ currentSelection' = after.currentSelection
           /\ popup' = after.popup
           /\ noteInput' = after.noteInput
           /\ reloaded' = after.reloaded
    /\ lastStatus' = request.status
    /\ request' = NoRequest
    /\ UNCHANGED <<lastSelection, source, store, now>>
    /\ UNCHANGED nonClient

NextClient ==
    \/ \E first \in 1..Len(PageTextNodes), last \in 1..Len(PageTextNodes),
          collapsed \in BOOLEAN, inPopup \in BOOLEAN :
              HandleSelectionEvent(first, last, collapsed, inPopup)
    \/ \E text \in {<<>>, ANote} : TypeNote(text)
    \/ ClosePopup
    \/ SendCreateRequest
    \/ PostHighlights
    \/ ReceiveResponse

SpecClient == InitClient /\ [][NextClient]_vars

BlockLevelTags == {"body", "nav", "div", "p", "table", "tr", "td"}

\* The block element a text node lies in: its closest block-level ancestor.
BlockElementOf(node) ==
    LET up == AncestorsOrSelf(PageTextNodes[node].parent)
        k == CHOOSE i \in 1..Len(up) :
                 /\ PageElements[up[i]].tag \in BlockLevelTags
                 /\ \A j \in 1..(i - 1) : PageElements[up[j]].tag \notin BlockLevelTags
    IN  up[k]

\* C16 (as claimed): after a selection event whose two ends lie in different block
\* elements there is no pending selection and the popup is not shown.
C16_CrossBlockNeverPending ==
    (/\ lastSelection.seen
     /\ ~lastSelection.collapsed
     /\ BlockElementOf(lastSelection.startContainer)
            # BlockElementOf(lastSelection.endContainer))
        => (~currentSelection.pending /\ popup # "shown")

(***************************************************************************)
(* Occurrence index of a selection on a rendered page.                     *)
(***************************************************************************)
\* The text of the text nodes at paths[1..k], in order.
RECURSIVE TextOfPaths(_, _, _)
TextOfPaths(nodes, paths, k) ==
    IF k = 0 THEN <<>>
    ELSE TextOfPaths(nodes, paths, k - 1) \o NodeAt(nodes, paths[k]).text

\* Position of path in paths.
PositionOf(paths, path) == CHOOSE k \in 1..Len(paths) : paths[k] = path

\* The text before the selection taken from the text nodes outside marks only.
preRangeTextCanonical(nodes, startContainer, startOffset) ==
    LET all == AllTextNodePaths(nodes, <<>>, 1)
        k == PositionOf(all, startContainer)
        outside == SelectSeq(SubSeq(all, 1, k - 1), LAMBDA q : ~InsideHighlight(nodes, q))
    IN  TextOfPaths(nodes, outside, Len(outside))
            \o (IF InsideHighlight(nodes, startContainer) THEN <<>>
                ELSE Slice(NodeAt(nodes, startContainer).text, 0, startOffset))

\* preRange.toString() of calculateOccurrenceIndex: the range starts with the
\* contents of the content area and ends at (startContainer, startOffset);
\* Range.toString() is the data of every text node in the range, whatever element
\* it is in, the last one cut at startOffset.
preRangeText(nodes, startContainer, startOffset) ==
    LET all == AllTextNodePaths(nodes, <<>>, 1)
        k == PositionOf(all, startContainer)
    IN  TextOfPaths(nodes, all, k - 1)
            \o Slice(NodeAt(nodes, startContainer).text, 0, startOffset)

BabTree == <<MarkElement(1, FALSE, <<TextNode(<<"b">>)>>), TextNode(<<"a", "b">>)>>
AbAbTree ==
    <<Element(<<TextNode(<<"a", "b">>), MarkElement(1, FALSE, <<TextNode(<<"a", "b">>)>>)>>),
      Element(<<TextNode(<<" ", "a", "b">>)>>)>>

Pages == Trees \cup {BabTree, AbAbTree, ABTree}

\* The selections of a page: a start in any of its text nodes and the text of the
\* page from there, up to MaxTextLen characters long, trimmed as handleTextSelection
\* trims it (a selection whose trimmed text is empty never becomes pending).
SelectionAt(nodes, startContainer, startOffset, n) ==
    LET full == textContent(nodes)
        start == Len(preRangeText(nodes, startContainer, startOffset))
    IN  [set |-> TRUE, startContainer |-> startContainer, startOffset |-> startOffset,
         text |-> Trim(Slice(full, start, Min(start + n, Len(full))))]

SelectionsOf(nodes) ==
    LET all == AllTextNodePaths(nodes, <<>>, 1)
    IN  {sel \in {SelectionAt(nodes, all[k], o, n) :
                     k \in 1..Len(all), o \in 0..(MaxTextLen - 1), n \in 1..MaxTextLen} :
            /\ sel.startOffset < Len(NodeAt(nodes, sel.startContainer).text)
            /\ sel.text # <<>>}

InitSelect ==
    /\ page \in Pages
    /\ selection \in SelectionsOf(page)
    /\ indexed = NotIndexed
    /\ IdleLocator
    /\ IdleRender
    /\ IdleCli
    /\ IdleInject
    /\ IdleStore
    /\ IdleClient
    /\ IdleServer
    /\ IdleNav
    /\ IdleWatcher
    /\ IdleCreate
    /\ IdleScan

\* Client: calculateOccurrenceIndex(selectedText, range) for the pending selection.
CalculateOccurrenceIndex ==
    /\ ~indexed.done
    /\ LET textBefore == preRangeText(page, selection.startContainer, selection.startOffset)
       IN  indexed' = [done |-> TRUE, textBefore |-> textBefore,
                       occurrenceIndex |->
                           calculateOccurrenceIndex(selection.text, textBefore,
                                                    Len(textBefore))]
    /\ UNCHANGED <<page, selection>>
    /\ UNCHANGED nonSelect

NextSelect == CalculateOccurrenceIndex

SpecSelect == InitSelect /\ [][NextSelect]_vars

\* C21 (as claimed): the index is the number of occurrences of the selected text
\* in the canonical text before the selection start: the text of the text nodes
\* outside marks, as extractCanonicalText takes it.
C21_CountsInCanonicalText ==
    indexed.done =>
        /\ indexed.textBefore =
              preRangeTextCanonical(page, selection.startContainer, selection.startOffset)
        /\ indexed.occurrenceIndex =
              CountFrom(preRangeTextCanonical(page, selection.startContainer,
                                              selection.startOffset),
                        selection.text, 0)

\* C21 (amended): the index is counted in the whole text of the content area before
\* the selection start, the text inside marks included: textBefore is the prefix of
\* the textContent of the page that ends at the selection start, and the index is
\* the number of occurrences of the selected text that lie in that prefix.
C21_CountsInWholeText ==
    indexed.done =>
        LET full == textContent(page)
            start == Len(indexed.textBefore)
        IN  /\ indexed.textBefore = Slice(full, 0, start)
            /\ start = Len(TextOfPaths(page, AllTextNodePaths(page, <<>>, 1),
                                       PositionOf(AllTextNodePaths(page, <<>>, 1),
                                                  selection.startContainer) - 1))
                        + selection.startOffset
            /\ indexed.occurrenceIndex =
                  Cardinality({p \in 0..start :
                      /\ p + Len(selection.text) <= start
                      /\ OccursAt(full, selection.text, p)})

\* An occurrence of the selected text inside a mark before the selection has been
\* counted.
C21_Witness ==
    /\ indexed.done
    /\ indexed.occurrenceIndex >
          CountFrom(preRangeTextCanonical(page, selection.startContainer,
                                          selection.startOffset),
                    selection.text, 0)
    /\ ~InsideHighlight(page, selection.startContainer)

(***************************************************************************)
(* HTTP server: routing and the markdown view.                             *)
(***************************************************************************)
ViewPrefix == <<"/", "v", "i", "e", "w", "/">>
FontsPrefix == <<"/", "_", "f", "o", "n", "t", "s", "/">>
WsPath == <<"/", "_", "w", "s">>
RootPath == <<"/">>

\* A file that does not exist: Bun.file(path).text() throws.
Missing == [exists |-> FALSE]
File(text) == [exists |-> TRUE, text |-> text]

\* parseViewPath(pathname): the path after "/view/" when it ends in .md, else null.
parseViewPath(pathname) ==
    IF ~startsWith(pathname, ViewPrefix) THEN Undefined
    ELSE LET filePath == Slice(pathname, Len(ViewPrefix), Len(pathname))
         IN  IF endsWith(filePath, MdSuffix) THEN Def(filePath) ELSE Undefined

\* readMarkdownFile(rootDir, relativePath): the text of the file, null when reading
\* it throws.
readMarkdownFile(files, relativePath) ==
    IF relativePath \in DOMAIN files /\ files[relativePath].exists
    THEN Def(files[relativePath].text)
    ELSE Undefined

\* !markdown for markdown: string | null: null and the empty string are falsy.
IsFalsy(markdown) == ~markdown.defined \/ markdown.value = <<>>

ErrorPage(code, message, path) ==
    [status |-> code, kind |-> "error", message |-> message, path |-> path]

\* handleMarkdownView(viewPath, ...): renderThrows says whether processMarkdown or
\* generateMarkdownPage throws for this text.
handleMarkdownView(files, viewPath, renderThrows) ==
    LET markdown == readMarkdownFile(files, viewPath)
    IN  IF IsFalsy(markdown) THEN ErrorPage(404, "File not found", viewPath)
        ELSE IF renderThrows THEN ErrorPage(500, "Failed to render markdown", viewPath)
        ELSE [status |-> 200, kind |-> "page", markdown |-> markdown.value,
              path |-> viewPath]

\* The handler createHandler returns, for a GET of pathname: watch is config.watch,
\* upgraded the result of server.upgrade(req), fontFound whether the font file has
\* a size above 0.
handleRequest(files, pathname, watch, upgraded, fontFound, renderThrows) ==
    IF pathname = WsPath /\ watch
    THEN (IF upgraded THEN [status |-> 101, kind |-> "websocket"]
          ELSE [status |-> 400, kind |-> "text"])
    ELSE IF startsWith(pathname, FontsPrefix) /\ fontFound
    THEN [status |-> 200, kind |-> "font"]
    ELSE IF pathname = RootPath
    THEN [status |-> 200, kind |-> "index"]
    ELSE IF parseViewPath(pathname).defined
    THEN handleMarkdownView(files, parseViewPath(pathname).value, renderThrows)
    ELSE ErrorPage(404, "Page not found", <<>>)

AMd == <<"a", ".", "m", "d">>
BMd == <<"d", "/", "b", ".", "m", "d">>
ATxt == <<"a", ".", "t", "x", "t">>
FontFile == <<"f", ".", "w", "o", "f", "f", "2">>

ViewedFiles == {AMd, BMd}
FileContents == {Missing, File(<<>>), File(<<"#", " ", "a">>), File(<<" ">>)}
FileSystems == [ViewedFiles -> FileContents]

Pathnames ==
    {RootPath, WsPath, FontsPrefix \o FontFile, ViewPrefix \o AMd, ViewPrefix \o BMd,
     ViewPrefix \o ATxt, ViewPrefix, <<"/", "x">>}

InitServer ==
    /\ fileSystem \in FileSystems
    /\ httpRequest = NoPathname
    /\ httpResponse = NoResponse
    /\ IdleLocator
    /\ IdleRender
    /\ IdleCli
    /\ IdleInject
    /\ IdleStore
    /\ IdleClient
    /\ IdleSelect
    /\ IdleNav
    /\ IdleWatcher
    /\ IdleCreate
    /\ IdleScan

\* Server: one request handled.
HandleRequest(pathname, watch, upgraded, fontFound, renderThrows) ==
    /\ httpRequest' = pathname
    /\ httpResponse' = handleRequest(fileSystem, pathname, watch, upgraded, fontFound,
                                     renderThrows)
    /\ UNCHANGED fileSystem
    /\ UNCHANGED nonServer

NextServer ==
    \E pathname \in Pathnames, watch \in BOOLEAN, upgraded \in BOOLEAN,
       fontFound \in BOOLEAN, renderThrows \in BOOLEAN :
        HandleRequest(pathname, watch, upgraded, fontFound, renderThrows)

SpecServer == InitServer /\ [][NextServer]_vars

\* C25 (as claimed): a view request is answered 404 exactly when the file is
\* missing; a file that can be read, whatever its content, is never reported as
\* "File not found".
C25_NotFoundOnlyWhenMissing ==
    (httpRequest # NoPathname /\ parseViewPath(httpRequest).defined) =>
        LET viewPath == parseViewPath(httpRequest).value
        IN  /\ httpResponse.status = 404 <=> ~fileSystem[viewPath].exists
            /\ fileSystem[viewPath].exists =>
                  ~(httpResponse.kind = "error" /\ httpResponse.message = "File not found")

(***************************************************************************)
(* Deep-link navigation.                                                   *)
(***************************************************************************)
HighlightFragment == <<"#", "h", "i", "g", "h", "l", "i", "g", "h", "t", "-">>

\* The data-highlight-id attribute of a mark whose id is i, as text.
IdAttribute(i) == <<ToString(i)>>

\* document.querySelectorAll('mark.llmd-highlight[data-highlight-id="<id>"]'): the
\* positions, among the highlight marks of the document in document order, of those
\* whose attribute is highlightId.
MarksWithId(nodes, highlightId) ==
    LET marks == MarksOf(nodes)
    IN  SelectSeq([k \in 1..Len(marks) |-> k],
                  LAMBDA k : IdAttribute(marks[k].id) = highlightId)

\* The selector matching every highlight mark, whatever its id.
scrollToHighlightAnyMark(view, highlightId) ==
    LET marks == [k \in 1..Len(MarksOf(view.doc)) |-> k]
    IN  IF Len(marks) = 0 THEN [result |-> FALSE, view |-> view]
        ELSE [result |-> TRUE,
              view |-> [view EXCEPT !.scrolledTo = marks[1],
                                    !.flash = @ \cup {marks[k] : k \in 1..Len(marks)}]]

\* scrollToHighlight(highlightId): view holds the document, the mark scrolled into
\* view and the marks carrying the class highlight-flash.
scrollToHighlight(view, highlightId) ==
    LET marks == MarksWithId(view.doc, highlightId)
    IN  IF Len(marks) = 0 THEN [result |-> FALSE, view |-> view]
        ELSE [result |-> TRUE,
              view |-> [view EXCEPT !.scrolledTo = marks[1],
                                    !.flash = @ \cup {marks[k] : k \in 1..Len(marks)}]]

\* handleHighlightFragment up to its setTimeout: the id the timer is set for, none
\* when the hash does not start with "#highlight-" or nothing follows it.
handleHighlightFragment(fragment) ==
    IF ~startsWith(fragment, HighlightFragment) THEN Undefined
    ELSE LET highlightId == Slice(fragment, Len(HighlightFragment), Len(fragment))
         IN  IF highlightId = <<>> THEN Undefined ELSE Def(highlightId)

SplitMarkTree == renderHighlights(InlineTree, <<Range(1, 1, 3, FALSE)>>).tree
TwoMarksTree == renderHighlights(ABTree, ABBatch).tree

NavDocs == Pages \cup {SplitMarkTree, TwoMarksTree}

Hashes ==
    {<<>>, <<"#", "t", "o", "c">>, HighlightFragment,
     HighlightFragment \o <<"1">>, HighlightFragment \o <<"2">>,
     HighlightFragment \o <<"3">>, HighlightFragment \o <<"0", "1">>,
     <<"#", "H">> \o Tail(Tail(HighlightFragment)) \o <<"1">>}

View == [doc |-> doc, flash |-> flash, scrolledTo |-> scrolledTo]

InitNav ==
    /\ doc \in NavDocs
    /\ hasContent \in BOOLEAN
    /\ hash \in Hashes
    /\ nstep = "loaded"
    /\ scrollTimer = Undefined
    /\ flash = {}
    /\ scrolledTo = 0
    /\ navLog = <<>>
    /\ IdleLocator
    /\ IdleRender
    /\ IdleCli
    /\ IdleInject
    /\ IdleStore
    /\ IdleClient
    /\ IdleSelect
    /\ IdleServer
    /\ IdleWatcher
    /\ IdleCreate
    /\ IdleScan

\* Client: the bundle runs on the page loaded: initHighlights is called when the
\* page has a content area, and ends with handleHighlightFragment.
InitHighlights ==
    /\ nstep = "loaded"
    /\ nstep' = "initialized"
    /\ scrollTimer' = IF hasContent THEN handleHighlightFragment(hash) ELSE Undefined
    /\ UNCHANGED <<doc, hasContent, hash, flash, scrolledTo, navLog>>
    /\ UNCHANGED nonNav

\* Client: the timer of handleHighlightFragment fires: scrollToHighlight(id).
ScrollTimerFires ==
    /\ scrollTimer.defined
    /\ LET r == scrollToHighlight(View, scrollTimer.value)
       IN  /\ doc' = r.view.doc
           /\ flash' = r.view.flash
           /\ scrolledTo' = r.view.scrolledTo
           /\ navLog' = Append(navLog, [id |-> scrollTimer.value, result |-> r.result])
    /\ scrollTimer' = Undefined
    /\ UNCHANGED <<hasContent, hash, nstep>>
    /\ UNCHANGED nonNav

\* Client: the timer scrollToHighlight set for a mark fires: the class is removed.
FlashTimeout(mark) ==
    /\ mark \in flash
    /\ flash' = flash \ {mark}
    /\ UNCHANGED <<doc, hasContent, hash, nstep, scrollTimer, scrolledTo, navLog>>
    /\ UNCHANGED nonNav

NextNav ==
    \/ InitHighlights
    \/ ScrollTimerFires
    \/ \E mark \in flash : FlashTimeout(mark)

SpecNav == InitNav /\ [][NextNav]_vars

\* C26: scrollToHighlight(id) returns true exactly when the document has a mark
\* carrying that id, and when it returns false the document, its classes and its
\* scroll position are as before; a markdown page opened with the fragment
\* #highlight-<id> sets one timer for that id, calls scrollToHighlight once, for
\* exactly that id, and never calls it a second time.
C26_DeepLink ==
    [][/\ navLog' # navLog =>
             /\ navLog = <<>> /\ Len(navLog') = 1
             /\ hash = HighlightFragment \o navLog'[1].id
             /\ navLog'[1].result <=>
                   \E k \in 1..Len(MarksOf(doc)) :
                       IdAttribute(MarksOf(doc)[k].id) = navLog'[1].id
             /\ ~navLog'[1].result =>
                   doc' = doc /\ flash' = flash /\ scrolledTo' = scrolledTo
             /\ navLog'[1].result =>
                   /\ doc' = doc
                   /\ scrolledTo' \in 1..Len(MarksOf(doc))
                   /\ IdAttribute(MarksOf(doc)[scrolledTo'].id) = navLog'[1].id
       /\ (nstep = "loaded" /\ nstep' = "initialized") =>
             /\ scrollTimer'.defined <=>
                   /\ hasContent
                   /\ Len(hash) > Len(HighlightFragment)
                   /\ Slice(hash, 0, Len(HighlightFragment)) = HighlightFragment
             /\ scrollTimer'.defined => hash = HighlightFragment \o scrollTimer'.value
       /\ (nstep = "initialized" /\ ~scrollTimer.defined) => navLog' = navLog]_vars

\* The page was opened with #highlight-1; the navigation was made once and found
\* the two marks of highlight 1.
C26_Witness ==
    /\ hash = HighlightFragment \o <<"1">>
    /\ navLog = <<[id |-> <<"1">>, result |-> TRUE]>>
    /\ ~scrollTimer.defined
    /\ Cardinality(flash) = 2
    /\ scrolledTo = 1
    /\ Len(MarksOf(doc)) >= 2

(***************************************************************************)
(* Live reload: the file watcher of the page and the server's message      *)
(* handler.                                                                *)
(***************************************************************************)
CurrentFile == AMd
OtherFile == BMd

WatchMessage(file) == [type |-> "watch", file |-> Def(file)]
ReloadMessage(file) == [type |-> "reload", file |-> Def(file)]
\* A message JSON.parse throws on.
Malformed == [type |-> "malformed", file |-> Undefined]

\* What the server (or anything else at the other end) may send.
ServerMessages ==
    {ReloadMessage(CurrentFile), ReloadMessage(OtherFile),
     [type |-> "reload", file |-> Undefined], [type |-> "ping", file |-> Def(CurrentFile)],
     Malformed}

NewSocket == [state |-> "connecting", sent |-> <<>>, opened |-> FALSE, failed |-> FALSE]

Watcher ==
    [sockets |-> sockets, wsRef |-> wsRef, reconnectTimers |-> reconnectTimers,
     reconnectTimeout |-> reconnectTimeout]

\* connect(): ws = new WebSocket(wsUrl), with its four listeners.
connect(w) ==
    [w EXCEPT !.sockets = Append(@, NewSocket), !.wsRef = Len(w.sockets) + 1]

\* WebSocket.send on socket k: queued when the socket is open, discarded when it
\* is closing or closed (it throws on a connecting socket: nothing is sent).
send(socks, k, message) ==
    IF k = 0 \/ socks[k].state # "open" THEN socks
    ELSE [socks EXCEPT ![k].sent = Append(@, message)]

\* WebSocket.close() on socket k: a connecting or open socket starts closing.
close(socks, k) ==
    IF k = 0 \/ socks[k].state \notin {"connecting", "open"} THEN socks
    ELSE [socks EXCEPT ![k].state = "closing"]

\* The open listener that sends nothing.
onOpenSilent(w, k) == w

\* The open listener: ws?.send({type: "watch", file: currentFile}).
onOpen(w, k) ==
    [w EXCEPT !.sockets = send(w.sockets, w.wsRef, WatchMessage(CurrentFile))]

\* The close listener that sets no timer.
onCloseGivingUp(w, k) == w

\* The close listener: reconnectTimeout = setTimeout(connect, 2000).
onClose(w, k) ==
    [w EXCEPT !.reconnectTimers = @ \cup {k}, !.reconnectTimeout = k]

\* The error listener: ws?.close().
onError(w, k) ==
    [w EXCEPT !.sockets = close(w.sockets, w.wsRef)]

\* The message listener: TRUE when it reloads the page.
onMessage(message) ==
    /\ message.type = "reload"
    /\ message.file = Def(CurrentFile)

\* The beforeunload listener: clearTimeout(reconnectTimeout), ws?.close().
onBeforeUnload(w) ==
    [w EXCEPT !.reconnectTimers = @ \ {w.reconnectTimeout},
              !.sockets = close(w.sockets, w.wsRef)]

\* Server: handleWebSocketMessage: watchFile for a watch message with a file.
handleWebSocketMessage(watching, k, message) ==
    IF message.type = "watch" /\ message.file.defined
    THEN watching \cup {<<k, message.file.value>>}
    ELSE watching

\* connectFileWatcher(currentFile) has run: the first connection is being made.
InitWatcher ==
    /\ sockets = <<NewSocket>>
    /\ wsRef = 1
    /\ reconnectTimers = {}
    /\ reconnectTimeout = 0
    /\ pageLoaded = TRUE
    /\ reloadCause = Undefined
    /\ watched = {}
    /\ IdleLocator
    /\ IdleRender
    /\ IdleCli
    /\ IdleInject
    /\ IdleStore
    /\ IdleClient
    /\ IdleSelect
    /\ IdleServer
    /\ IdleNav
    /\ IdleCreate
    /\ IdleScan

SetWatcher(w) ==
    /\ sockets' = w.sockets
    /\ wsRef' = w.wsRef
    /\ reconnectTimers' = w.reconnectTimers
    /\ reconnectTimeout' = w.reconnectTimeout

\* The connection of socket k is established: open event.
OpenEvent(k) ==
    /\ pageLoaded
    /\ sockets[k].state = "connecting"
    /\ SetWatcher(onOpen([Watcher EXCEPT !.sockets[k].state = "open",
                                         !.sockets[k].opened = TRUE], k))
    /\ UNCHANGED <<pageLoaded, reloadCause, watched>>
    /\ UNCHANGED nonWatcher

\* The connection of socket k fails or breaks: error event.  Only the first
\* MaxSockets - 1 connections fail.
ErrorEvent(k) ==
    /\ pageLoaded
    /\ k < MaxSockets
    /\ sockets[k].state \in {"connecting", "open"}
    /\ ~sockets[k].failed
    /\ SetWatcher(onError([Watcher EXCEPT !.sockets[k].failed = TRUE], k))
    /\ UNCHANGED <<pageLoaded, reloadCause, watched>>
    /\ UNCHANGED nonWatcher

\* Socket k is closed (by close(), by the server, or after a failure): close event.
\* Only the first MaxSockets - 1 connections are closed by the other end.
CloseEvent(k) ==
    /\ pageLoaded
    /\ sockets[k].state = "closing" \/ (sockets[k].state = "open" /\ k < MaxSockets)
    /\ SetWatcher(onClose([Watcher EXCEPT !.sockets[k].state = "closed"], k))
    /\ UNCHANGED <<pageLoaded, reloadCause, watched>>
    /\ UNCHANGED nonWatcher

\* The timer set by the close listener of socket k fires: connect().
ReconnectTimerFires(k) ==
    /\ pageLoaded
    /\ k \in reconnectTimers
    /\ SetWatcher(connect([Watcher EXCEPT !.reconnectTimers = @ \ {k}]))
    /\ UNCHANGED <<pageLoaded, reloadCause, watched>>
    /\ UNCHANGED nonWatcher

\* A message arrives on the open socket k: message event.
MessageEvent(k, message) ==
    /\ pageLoaded
    /\ sockets[k].state = "open"
    /\ IF onMessage(message)
       THEN /\ reloadCause' = Def(message)
            /\ pageLoaded' = FALSE
            /\ SetWatcher(onBeforeUnload(Watcher))
       ELSE UNCHANGED <<reloadCause, pageLoaded, sockets, wsRef, reconnectTimers,
                        reconnectTimeout>>
    /\ UNCHANGED watched
    /\ UNCHANGED nonWatcher

\* The user leaves the page: beforeunload.
Unload ==
    /\ pageLoaded
    /\ pageLoaded' = FALSE
    /\ SetWatcher(onBeforeUnload(Watcher))
    /\ UNCHANGED <<reloadCause, watched>>
    /\ UNCHANGED nonWatcher

\* Server: a message sent on socket k is handled.
HandleWebSocketMessage(k) ==
    /\ sockets[k].sent # <<>>
    /\ \A f \in {CurrentFile, OtherFile} : <<k, f>> \notin watched
    /\ watched' = handleWebSocketMessage(watched, k, sockets[k].sent[1])
    /\ UNCHANGED <<sockets, wsRef, reconnectTimers, reconnectTimeout, pageLoaded,
                   reloadCause>>
    /\ UNCHANGED nonWatcher

NextWatcher ==
    \/ \E k \in 1..Len(sockets) : OpenEvent(k)
    \/ \E k \in 1..Len(sockets) : ErrorEvent(k)
    \/ \E k \in 1..Len(sockets) : CloseEvent(k)
    \/ \E k \in 1..Len(sockets) : ReconnectTimerFires(k)
    \/ \E k \in 1..Len(sockets), message \in ServerMessages : MessageEvent(k, message)
    \/ Unload
    \/ \E k \in 1..Len(sockets) : HandleWebSocketMessage(k)

SpecWatcher == InitWatcher /\ [][NextWatcher]_vars

\* A timer that is set fires, and a socket that close() was called on gets its
\* close event.
FairWatcher ==
    /\ \A k \in 1..MaxSockets : WF_vars(ReconnectTimerFires(k))
    /\ \A k \in 1..MaxSockets :
          WF_vars(k <= Len(sockets) /\ sockets[k].state = "closing" /\ CloseEvent(k))

SpecWatcherFair == SpecWatcher /\ FairWatcher

\* What holds of the watcher in every state: every socket that has opened has
\* sent one message, the watch message for currentFile; the page has been
\* reloaded only on a reload message for currentFile.
WatcherSafe ==
    /\ \A k \in 1..Len(sockets) :
          sockets[k].opened => sockets[k].sent = <<WatchMessage(CurrentFile)>>
    /\ reloadCause.defined => reloadCause.value = ReloadMessage(CurrentFile)
    /\ reloadCause.defined => ~pageLoaded
    /\ \A e \in watched : e[2] = CurrentFile

\* C27: whenever a socket of the watcher has failed or is closed while the page is
\* loaded, a further connection is made (or the page is left); every connection
\* that opens sends the watch message for currentFile; the page reloads only on a
\* message of type reload for currentFile.
C27_Reconnect ==
    /\ []WatcherSafe
    /\ \A k \in 1..MaxSockets :
          (k <= Len(sockets) /\ pageLoaded
               /\ (sockets[k].failed \/ sockets[k].state = "closed"))
             ~> (~pageLoaded \/ Len(sockets) > k)

\* The first connection failed, the second was closed after it had opened, and a
\* third one is open and has sent its watch message.
C27_Witness ==
    /\ pageLoaded
    /\ Len(sockets) = 3
    /\ sockets[1].failed /\ ~sockets[1].opened /\ sockets[1].state = "closed"
    /\ sockets[2].opened /\ sockets[2].state = "closed"
    /\ sockets[3].state = "open" /\ sockets[3].sent = <<WatchMessage(CurrentFile)>>
    /\ <<3, CurrentFile>> \in watched

(***************************************************************************)
(* The Create button: activations of one pending selection.                *)
(***************************************************************************)
InitCreate ==
    /\ posts = <<>>
    /\ IdleClient
    /\ source \in ClientSources
    /\ store = <<>>
    /\ now = 0
    /\ edits = 0
    /\ creating = NoCreation
    /\ lastOp = "none"
    /\ pageOut = <<>>
    /\ raced = {}
    /\ IdleLocator
    /\ IdleRender
    /\ IdleCli
    /\ IdleInject
    /\ IdleSelect
    /\ IdleServer
    /\ IdleNav
    /\ IdleWatcher
    /\ IdleScan

\* What the steps of the creation flow leave alone.
nonCreation ==
    <<lvars, rvars, cvars, ivars, qvars, hvars, nvars, wvars, zvars,
      edits, creating, lastOp, pageOut, raced, request, lastStatus>>

\* The one selection of the page: handleTextSelection on the first mouseup.
SelectOnce(first, last) ==
    /\ ~lastSelection.seen
    /\ HandleSelectionEvent(first, last, FALSE, FALSE)

\* The click listener of the create button: createHighlight up to the fetch.  The
\* button stays in the popup, enabled, while requests are under way.
ActivateCreate ==
    /\ popup = "shown"
    /\ currentSelection.pending
    /\ Len(posts) < MaxInFlight
    /\ posts' = Append(posts,
          [phase |-> "sent",
           highlightedText |-> currentSelection.text,
           occurrenceIndex |->
               calculateOccurrenceIndex(
                   currentSelection.text, ContentText,
                   Len(ContentTextBefore(currentSelection.startContainer))),
           notes |-> IF Trim(noteInput) = <<>> THEN Undefined ELSE Def(Trim(noteInput))])
    /\ UNCHANGED <<currentSelection, popup, noteInput, reloaded, lastSelection,
                   source, store, now>>
    /\ UNCHANGED nonCreation

\* Server: POST /api/highlights for the k-th request sent.
ServeCreate(k) ==
    /\ posts[k].phase = "sent"
    /\ Len(store) < MaxHighlights
    /\ LET found == findTextOffset(source, posts[k].highlightedText,
                                   posts[k].occurrenceIndex)
       IN  IF found.found
           THEN /\ store' = Append(store, NewHighlight(now + 1, ReadmePath, posts[k],
                                                       found, source))
                /\ now' = now + 1
                /\ posts' = [posts EXCEPT ![k] = [phase |-> "answered", status |-> 200]]
           ELSE /\ posts' = [posts EXCEPT ![k] = [phase |-> "answered", status |-> 400]]
                /\ UNCHANGED <<store, now>>
    /\ UNCHANGED <<currentSelection, popup, noteInput, reloaded, lastSelection, source>>
    /\ UNCHANGED nonCreation

\* createHighlight after the fetch of the k-th request, on the page that sent it.
SettleCreate(k) ==
    /\ ~reloaded
    /\ posts[k].phase = "answered"
    /\ LET after == createHighlightSettled(Ui, posts[k].status = 200)
       IN  /\ currentSelection' = after.currentSelection
           /\ popup' = after.popup
           /\ noteInput' = after.noteInput
           /\ reloaded' = after.reloaded
    /\ posts' = [posts EXCEPT ![k] = [phase |-> "settled", status |-> posts[k].status]]
    /\ UNCHANGED <<lastSelection, source, store, now>>
    /\ UNCHANGED nonCreation

NextCreate ==
    \/ \E first \in 1..Len(PageTextNodes), last \in 1..Len(PageTextNodes) :
          SelectOnce(first, last)
    \/ ActivateCreate
    \/ \E k \in 1..Len(posts) : ServeCreate(k)
    \/ \E k \in 1..Len(posts) : SettleCreate(k)

SpecCreate == InitCreate /\ [][NextCreate]_vars

\* C28 (as claimed): for the one selection of the page at most one request is
\* sent, and no two stored highlights have the same range.
C28_OneHighlightPerSelection ==
    /\ Len(posts) <= 1
    /\ \A i \in 1..Len(store), j \in 1..Len(store) :
          i # j => ~(/\ store[i].resourcePath = store[j].resourcePath
                     /\ store[i].startOffset = store[j].startOffset
                     /\ store[i].endOffset = store[j].endOffset)

(***************************************************************************)
(* The scan loop of calculateOccurrenceIndex, step by step.                *)
(***************************************************************************)
\* String.prototype.indexOf(s, pos) for any s: the empty string is found at pos,
\* clamped to the length of the text.
stringIndexOf(text, s, pos) ==
    IF s = <<>> THEN Min(Max(pos, 0), Len(text)) ELSE IndexOf(text, s, pos)

InitScan ==
    /\ scan = NoScan
    /\ InitClient
    /\ IdleCreate

nonScanning ==
    <<lvars, rvars, cvars, ivars, svars, uvars, qvars, hvars, nvars, wvars, pvars>>

\* A selection event between two runs of the loop (the loop is synchronous: no
\* event is handled while it runs).
SelectBetweenScans(first, last, collapsed) ==
    /\ scan.phase # "running"
    /\ HandleSelectionEvent(first, last, collapsed, FALSE)

\* createHighlight calls calculateOccurrenceIndex for the pending selection:
\* textBefore is taken, count = 0, searchPos = 0.
BeginScan ==
    /\ scan.phase # "running"
    /\ popup = "shown"
    /\ currentSelection.pending
    /\ scan' = [phase |-> "running",
                textBefore |-> ContentTextBefore(currentSelection.startContainer),
                selectedText |-> currentSelection.text,
                searchPos |-> 0, count |-> 0]
    /\ UNCHANGED nonScanning

\* One turn of the while loop: break when indexOf gives -1, else count += 1 and
\* searchPos = found + 1.
ScanStep ==
    /\ scan.phase = "running"
    /\ LET found == stringIndexOf(scan.textBefore, scan.selectedText, scan.searchPos)
       IN  scan' = IF found = -1
                   THEN [scan EXCEPT !.phase = "done"]
                   ELSE [scan EXCEPT !.count = @ + 1, !.searchPos = found + 1]
    /\ UNCHANGED nonScanning

NextScan ==
    \/ \E first \in 1..Len(PageTextNodes), last \in 1..Len(PageTextNodes),
          collapsed \in BOOLEAN : SelectBetweenScans(first, last, collapsed)
    \/ BeginScan
    \/ ScanStep

SpecScan == InitScan /\ [][NextScan]_vars

\* The loop is not suspended: its next turn is taken.
SpecScanFair == SpecScan /\ WF_vars(ScanStep)

\* C30: the loop is only entered with a non-empty selected text; each turn that
\* does not end it moves searchPos strictly forward, never past the length of
\* textBefore; so a loop that runs ends, and it ends with the count that
\* calculateOccurrenceIndex returns.
C30_ScanTerminates ==
    /\ [][/\ scan'.phase = "running" =>
                /\ scan'.selectedText # <<>>
                /\ scan'.searchPos <= Len(scan'.textBefore)
                /\ scan'.count <= scan'.searchPos
          /\ (scan.phase = "running" /\ scan'.phase = "running") =>
                /\ scan'.searchPos > scan.searchPos
                /\ scan'.textBefore = scan.textBefore
                /\ scan'.selectedText = scan.selectedText
          /\ (scan.phase = "running" /\ scan'.phase = "done") =>
                scan'.count = CountFrom(scan.textBefore, scan.selectedText, 0)]_vars
    /\ (scan.phase = "running") ~> (scan.phase = "done")

\* A loop has ended after several turns, having counted several occurrences.
C30_Witness ==
    /\ scan.phase = "done"
    /\ scan.count >= 2
    /\ scan.searchPos >= 2
    /\ scan.selectedText # <<>>

(***************************************************************************)
(* Further claims about the validator and the occurrence index calculator.  *)
(***************************************************************************)
\* a holds the elements of b, each as often as b does.
IsPermutationOf(a, b) ==
    /\ Len(a) = Len(b)
    /\ \E f \in [1..Len(a) -> 1..Len(a)] :
          /\ \A i \in 1..Len(a), j \in 1..Len(a) : i # j => f[i] # f[j]
          /\ \A i \in 1..Len(a) : a[i] = b[f[i]]

AscendingByStart(rs) ==
    \A i \in 1..Len(rs), j \in 1..Len(rs) : i < j => rs[i].startOffset <= rs[j].startOffset

\* C17: when validateHighlightRanges succeeds, the sequence it returns is a
\* permutation of the input ranges in ascending startOffset, and the caller's input
\* sequence is after the call what it was before it.
C17_SortedCopy ==
    [][validation'.valid =>
          /\ IsPermutationOf(validation'.ranges, ranges)
          /\ AscendingByStart(validation'.ranges)
          /\ ranges' = ranges]_vars

\* A batch given out of order has been accepted: the returned sequence differs from
\* the input, which still has its later range first.
C17_Witness ==
    /\ renderResult = "success"
    /\ validation.valid
    /\ Len(ranges) >= 2
    /\ ranges[1].startOffset > ranges[2].startOffset
    /\ validation.ranges # ranges

\* C20: the index createHighlight sends is the number of start positions in the
\* text before the selection start at which the selected text occurs, overlapping
\* occurrences each counted: text before "aaaa" and selected text "aa" give 3.
C20_CountsEveryStart ==
    lstep = "requested" =>
        /\ occurrenceIndex =
              Cardinality(StartPositions(Slice(content, 0, selStart), searchText))
        /\ (Slice(content, 0, selStart) = <<"a", "a", "a", "a">> /\ searchText = AaText) =>
              occurrenceIndex = 3

\* The index of a selection of "aa" after "aaaa" has been computed.
C20_Witness ==
    /\ lstep = "requested"
    /\ content = AaaaDoc /\ searchText = AaText
    /\ selStart = 4
    /\ occurrenceIndex = 3

====
